---- MODULE Spec2Model ----
(***************************************************************************)
(* A model of ArchiveBot (DavidArchibald/ArchiveBot): the rate limiter of   *)
(* reddit.go, the request path of routine.go, the tick-driven scheduler of  *)
(* processes.go and the anchor-based listing crawl of routine.go and        *)
(* reddit.go.                                                               *)
(*                                                                          *)
(* A Go pointer that may be nil is a sequence of length 0 (nil) or 1 (the   *)
(* value pointed to): Nil, Ptr(v) and Deref(p).                             *)
(***************************************************************************)
EXTENDS Integers, Sequences, FiniteSets, TLC

VARIABLES
    \* ---- the clock and the rate limiter (reddit.go) ----
    now,               \* time.Now(), in whole seconds
    currentRateLimit,  \* Reddit.rateLimit.currentRateLimit: Nil or Ptr(RateLimit)
    supplied,          \* history: the snapshots handed to SetRateLimit, in call order
    isLimitedCall,     \* history: the last IsRateLimited call: Nil or Ptr([held, blocked, result])
    \* ---- the scheduler (processes.go) and the loop tasks (main.go) ----
    isProduction,      \* Flags.IsProduction
    closed,            \* Client.closed
    crash,             \* "none", or why the process ended: a panic or os.Exit
    tickerC,           \* items buffered in p.ticker.C (capacity 1)
    tickerStopped,     \* p.ticker.Stop() was called
    timerC,            \* items buffered in timer.C (capacity 1)
    timerMode,         \* the loopDelay ticker: "periodic", "once" (after Reset(0)) or "off"
    routineTickerClosed, \* close(p.routineTicker) was executed
    spc,               \* where Processes.Start is
    gpc,               \* where the goroutine that Start spawns is
    tpc,               \* where each loop task is
    cpc,               \* where each invocation of Processes.Close is
    reqResult,         \* what the doRequest of each task's current iteration returned
    \* ---- the crawl (routine.go, reddit.go) and its store (redis.go) ----
    redis,             \* the keys Current, Start, End and IsForwards: Nil (unset) or Ptr(value)
    search,            \* Client.Search: the anchors NewSearch loaded
    kpc,               \* where the crawl is: "idle" between iterations, "loop" inside one
    params,            \* the ListingOptions of the next getSubmissions call
    visits,            \* history: how often each submission reached the loop body (up to MaxVisits)
    failure,           \* history: Nil, or Ptr([kind, redis]): the last fetch failed, and the store before it
    honouredBefore,    \* whether the upstream answers a query with both cursors by `before` (else by `after`)
    pageCall,          \* history: Nil, or Ptr of the last call of checkSubmissions or getSubmissions
    \* ---- the backfill from Pushshift (pushshift.go, historical_data.go) ----
    reader,            \* whose ReadSubmissionBatch runs: "Client" (pushshift.go) or "History" (historical_data.go)
    history,           \* PushshiftSearch / History: [last, done]
    batchCall,         \* history: Nil, or Ptr of the last call of ReadSubmissionBatch
    \* ---- the index in Redis (redis.go) and the backfill loop (main.go) ----
    index,             \* the hashes submissions and links, the sorted sets and the set of flair names
    ingestCall,        \* history: Nil, or Ptr of the last call of addSubmissions (and whether it repeats the one before)
    bpc,               \* where readSubmissions is: "idle" outside it, "loop" inside its loop
    returned,          \* history: how often ReadSubmissionBatch returned each submission to the loop (up to MaxReturns)
    \* ---- the search command (commands) ----
    searchCall,        \* history: Nil, or Ptr of the last call of SearchCommand or of ZIntersect
    \* ---- the lock of the rate limiter and doRateLimit step by step (reddit.go, routine.go) ----
    lock,              \* Reddit.lock: Nil, or Ptr of the task that holds it
    lpc,               \* where each task is in doRateLimit: "idle" outside it
    pending,           \* the newLimit each task's SetRateLimit was called with
    rateCall           \* history: Nil, or Ptr of the last access to the snapshot or return of doRateLimit

limiterVars == <<now, currentRateLimit, supplied, isLimitedCall>>

schedVars == <<isProduction, closed, crash, tickerC, tickerStopped, timerC, timerMode,
               routineTickerClosed, spc, gpc, tpc, cpc, reqResult>>

crawlVars == <<redis, search, kpc, params, visits, failure, honouredBefore, pageCall>>

batchVars == <<reader, history, batchCall>>

indexVars == <<index, ingestCall, bpc, returned>>

searchVars == <<searchCall>>

lockVars == <<lock, lpc, pending, rateCall>>

vars == <<now, currentRateLimit, supplied, isLimitedCall,
          isProduction, closed, crash, tickerC, tickerStopped, timerC, timerMode,
          routineTickerClosed, spc, gpc, tpc, cpc, reqResult,
          redis, search, kpc, params, visits, failure, honouredBefore, pageCall,
          reader, history, batchCall,
          index, ingestCall, bpc, returned,
          searchCall,
          lock, lpc, pending, rateCall>>

Nil == <<>>
Ptr(v) == <<v>>
Deref(p) == p[1]

(***************************************************************************)
(* Bounds.                                                                 *)
(***************************************************************************)
MaxNow == 1        \* the clock runs over 0..MaxNow
MaxCalls == 3      \* SetRateLimit calls in a behaviour of the limiter specification
MaxTime == 1       \* the observation times handed to SetRateLimit range over 0..MaxTime
MaxReset == 1      \* X-Ratelimit-Reset ranges over 1..MaxReset seconds
ListingSize == 4   \* submissions in the upstream listing
SearchLimit == 2   \* Config.Reddit.SearchLimit: submissions per page
MaxVisits == 2     \* visits of a submission are counted up to MaxVisits
ArchiveSize == 4   \* submissions in the Pushshift archive
BatchLimit == 3    \* Config.Subreddit.Limit: submissions per batch (the code wants more than 2)
MaxReturns == 2    \* returns of a submission are counted up to MaxReturns
IngestSpan == 2    \* addSubmissions is called directly with the IngestSpan newest submissions

\* The tokens of a query, the members of a ranked set handed to ZIntersect,
\* and the submissions of the small and of the large populated index.
MaxArgs == 2
MaxMembers == 2
SmallIndex == 5
IndexedPosts == 78

\* X-Ratelimit-Remaining: the code only tells 0 from the rest.
RemainingValues == {0, 1}

(***************************************************************************)
(* The rate limiter: reddit.go.                                            *)
(***************************************************************************)

\* RateLimit{time, used, remaining, reset, resetTime}; NewRateLimit sets
\* resetTime = time + reset seconds.  `used` is only ever logged.
NewRateLimit(t, remaining, reset) ==
    [time |-> t, remaining |-> remaining, reset |-> reset, resetTime |-> t + reset]

RateLimits ==
    { NewRateLimit(t, rem, rs) : t \in 0..MaxTime, rem \in RemainingValues, rs \in 1..MaxReset }

\* A plausible slip: "not older" instead of "strictly newer".
SetRateLimitNotOlder(cur, new) ==
    IF cur = Nil THEN Ptr(new)
    ELSE IF Deref(cur).time <= new.time THEN Ptr(new) ELSE cur

\* SetRateLimit: the held snapshot after the call.  The first snapshot is
\* always taken; later ones only when currentLimit.time.Before(newLimit.time).
SetRateLimit(cur, new) ==
    IF cur = Nil THEN Ptr(new)
    ELSE IF Deref(cur).time < new.time THEN Ptr(new) ELSE cur

\* IsRateLimited: the guard returns false whenever a snapshot IS held
\* (currentRateLimit != nil); with none held it falls through to the
\* dereference of the nil currentRateLimit, a nil-pointer panic.
\* r.rateLimit itself is never nil (NewRedditClient).
IsRateLimited(cur, t) ==
    IF cur # Nil THEN "false" ELSE "panic"

\* What section 4.3 calls blocked: remaining == 0 and now < resetAt.
Blocked(cur, t) ==
    /\ cur # Nil
    /\ Deref(cur).remaining = 0
    /\ t < Deref(cur).resetTime

CallSetRateLimit ==
    /\ Len(supplied) < MaxCalls
    /\ \E new \in RateLimits :
         /\ currentRateLimit' = SetRateLimit(currentRateLimit, new)
         /\ supplied' = Append(supplied, new)
    /\ UNCHANGED <<now, isLimitedCall>>
    /\ UNCHANGED schedVars
    /\ UNCHANGED crawlVars
    /\ UNCHANGED batchVars
    /\ UNCHANGED indexVars
    /\ UNCHANGED searchVars
    /\ UNCHANGED lockVars

CallIsRateLimited ==
    /\ isLimitedCall' = Ptr([held    |-> currentRateLimit # Nil,
                             blocked |-> Blocked(currentRateLimit, now),
                             result  |-> IsRateLimited(currentRateLimit, now)])
    /\ UNCHANGED <<now, currentRateLimit, supplied>>
    /\ UNCHANGED schedVars
    /\ UNCHANGED crawlVars
    /\ UNCHANGED batchVars
    /\ UNCHANGED indexVars
    /\ UNCHANGED searchVars
    /\ UNCHANGED lockVars

AdvanceClock ==
    /\ now < MaxNow
    /\ now' = now + 1
    /\ UNCHANGED <<currentRateLimit, supplied, isLimitedCall>>
    /\ UNCHANGED schedVars
    /\ UNCHANGED crawlVars
    /\ UNCHANGED batchVars
    /\ UNCHANGED indexVars
    /\ UNCHANGED searchVars
    /\ UNCHANGED lockVars

(***************************************************************************)
(* The scheduler and the loop tasks: processes.go, main.go, routine.go.    *)
(*                                                                         *)
(* Client.closed is a plain bool read and written without synchronisation; *)
(* every loop re-reads it after a channel operation, so a read yields the  *)
(* value current at that step, and a read racing with Close's write is the *)
(* interleaving of the two steps in either order.  An unrecovered panic in *)
(* any goroutine and os.Exit end the whole process: `crash` records it and *)
(* no step follows.                                                        *)
(***************************************************************************)
Tasks == {"crawl", "reply"}   \* analyzeSubmissions and ReplyToInbox (main.go)
Closers == {1, 2}             \* the invocations of Processes.Close

Alive == crash = "none"

\* time.Ticker: the runtime sends on a channel of capacity 1 and drops the
\* tick when the channel is full.  A tick is also the passing of time.
TickFire ==
    /\ Alive
    /\ ~tickerStopped
    /\ tickerC' = 1
    /\ now' = IF now < MaxNow THEN now + 1 ELSE now
    /\ UNCHANGED <<currentRateLimit, supplied, isLimitedCall>>
    /\ UNCHANGED crawlVars
    /\ UNCHANGED batchVars
    /\ UNCHANGED indexVars
    /\ UNCHANGED searchVars
    /\ UNCHANGED lockVars
    /\ UNCHANGED <<isProduction, closed, crash, tickerStopped, timerC, timerMode,
                   routineTickerClosed, spc, gpc, tpc, cpc, reqResult>>

\* The loopDelay ticker created by Start; after Reset(0) (in a build where
\* that does not panic) its period is 0 and it fires once.
TimerFire ==
    /\ Alive
    /\ timerMode # "off"
    /\ timerC' = 1
    /\ timerMode' = IF timerMode = "once" THEN "off" ELSE timerMode
    /\ UNCHANGED limiterVars
    /\ UNCHANGED crawlVars
    /\ UNCHANGED batchVars
    /\ UNCHANGED indexVars
    /\ UNCHANGED searchVars
    /\ UNCHANGED lockVars
    /\ UNCHANGED <<isProduction, closed, crash, tickerC, tickerStopped,
                   routineTickerClosed, spc, gpc, tpc, cpc, reqResult>>

\* ---- Processes.Start, the calling goroutine (lines 60-71) ----

\* for !c.closed { <-p.Tick() }
StartCheck ==
    /\ Alive
    /\ spc = "loop"
    /\ spc' = IF closed THEN "stop" ELSE "tick"
    /\ UNCHANGED limiterVars
    /\ UNCHANGED crawlVars
    /\ UNCHANGED batchVars
    /\ UNCHANGED indexVars
    /\ UNCHANGED searchVars
    /\ UNCHANGED lockVars
    /\ UNCHANGED <<isProduction, closed, crash, tickerC, tickerStopped, timerC, timerMode,
                   routineTickerClosed, gpc, tpc, cpc, reqResult>>

StartTick ==
    /\ Alive
    /\ spc = "tick"
    /\ tickerC = 1
    /\ tickerC' = 0
    /\ spc' = "loop"
    /\ UNCHANGED limiterVars
    /\ UNCHANGED crawlVars
    /\ UNCHANGED batchVars
    /\ UNCHANGED indexVars
    /\ UNCHANGED searchVars
    /\ UNCHANGED lockVars
    /\ UNCHANGED <<isProduction, closed, crash, tickerStopped, timerC, timerMode,
                   routineTickerClosed, gpc, tpc, cpc, reqResult>>

\* p.ticker.Stop()
StartStopTicker ==
    /\ Alive
    /\ spc = "stop"
    /\ tickerStopped' = TRUE
    /\ spc' = "drain"
    /\ UNCHANGED limiterVars
    /\ UNCHANGED crawlVars
    /\ UNCHANGED batchVars
    /\ UNCHANGED indexVars
    /\ UNCHANGED searchVars
    /\ UNCHANGED lockVars
    /\ UNCHANGED <<isProduction, closed, crash, tickerC, timerC, timerMode,
                   routineTickerClosed, gpc, tpc, cpc, reqResult>>

\* <-p.Tick() on the stopped ticker: only a tick buffered before Stop is left.
StartDrainTick ==
    /\ Alive
    /\ spc = "drain"
    /\ tickerC = 1
    /\ tickerC' = 0
    /\ spc' = "reset"
    /\ UNCHANGED limiterVars
    /\ UNCHANGED crawlVars
    /\ UNCHANGED batchVars
    /\ UNCHANGED indexVars
    /\ UNCHANGED searchVars
    /\ UNCHANGED lockVars
    /\ UNCHANGED <<isProduction, closed, crash, tickerStopped, timerC, timerMode,
                   routineTickerClosed, gpc, tpc, cpc, reqResult>>

\* timer.Reset(0) on a *time.Ticker.  go.mod names no toolchain that has
\* Ticker.Reset (go 1.13); in the releases that have it, it either panics on
\* a non-positive interval or arms a timer of period 0 that fires once.
StartResetTimer ==
    /\ Alive
    /\ spc = "reset"
    /\ \/ /\ crash' = "Ticker.Reset"
          /\ UNCHANGED <<timerMode, spc>>
       \/ /\ timerMode' = "once"
          /\ spc' = "timer"
          /\ UNCHANGED crash
    /\ UNCHANGED limiterVars
    /\ UNCHANGED crawlVars
    /\ UNCHANGED batchVars
    /\ UNCHANGED indexVars
    /\ UNCHANGED searchVars
    /\ UNCHANGED lockVars
    /\ UNCHANGED <<isProduction, closed, tickerC, tickerStopped, timerC,
                   routineTickerClosed, gpc, tpc, cpc, reqResult>>

\* <-timer.C
StartTimer ==
    /\ Alive
    /\ spc = "timer"
    /\ timerC = 1
    /\ timerC' = 0
    /\ spc' = "recv"
    /\ UNCHANGED limiterVars
    /\ UNCHANGED crawlVars
    /\ UNCHANGED batchVars
    /\ UNCHANGED indexVars
    /\ UNCHANGED searchVars
    /\ UNCHANGED lockVars
    /\ UNCHANGED <<isProduction, closed, crash, tickerC, tickerStopped, timerMode,
                   routineTickerClosed, gpc, tpc, cpc, reqResult>>

\* <-p.routineTicker on a closed channel returns at once.
StartRecvClosed ==
    /\ Alive
    /\ spc = "recv"
    /\ routineTickerClosed
    /\ spc' = "close"
    /\ UNCHANGED limiterVars
    /\ UNCHANGED crawlVars
    /\ UNCHANGED batchVars
    /\ UNCHANGED indexVars
    /\ UNCHANGED searchVars
    /\ UNCHANGED lockVars
    /\ UNCHANGED <<isProduction, closed, crash, tickerC, tickerStopped, timerC, timerMode,
                   routineTickerClosed, gpc, tpc, cpc, reqResult>>

\* close(p.routineTicker): closing a closed channel panics.
StartCloseChannel ==
    /\ Alive
    /\ spc = "close"
    /\ IF routineTickerClosed
       THEN crash' = "close of closed channel" /\ UNCHANGED <<routineTickerClosed, spc>>
       ELSE routineTickerClosed' = TRUE /\ spc' = "done" /\ UNCHANGED crash
    /\ UNCHANGED limiterVars
    /\ UNCHANGED crawlVars
    /\ UNCHANGED batchVars
    /\ UNCHANGED indexVars
    /\ UNCHANGED searchVars
    /\ UNCHANGED lockVars
    /\ UNCHANGED <<isProduction, closed, tickerC, tickerStopped, timerC, timerMode,
                   gpc, tpc, cpc, reqResult>>

\* ---- the goroutine spawned by Start (lines 45-58) ----

\* for !c.closed {
SchedCheck ==
    /\ Alive
    /\ gpc = "check"
    /\ gpc' = IF closed THEN "done" ELSE "send"
    /\ UNCHANGED limiterVars
    /\ UNCHANGED crawlVars
    /\ UNCHANGED batchVars
    /\ UNCHANGED indexVars
    /\ UNCHANGED searchVars
    /\ UNCHANGED lockVars
    /\ UNCHANGED <<isProduction, closed, crash, tickerC, tickerStopped, timerC, timerMode,
                   routineTickerClosed, spc, tpc, cpc, reqResult>>

\* What the goroutine does once its send on the unbuffered p.routineTicker
\* is received: p.wg.Wait() (nothing ever calls wg.Add, so it returns),
\* timer.Reset(LoopDelay), and on to <-timer.C.  The channel is never closed
\* while the goroutine is at its send: the first receive of any closer (Close
\* or Start) pairs with this send, and the goroutine then reads closed = true.
SchedSent ==
    /\ gpc = "send"
    /\ ~routineTickerClosed
    /\ gpc' = "timer"
    /\ timerMode' = "periodic"

\* The send is received by a task blocked in RoutineWait.
Grant(t) ==
    /\ Alive
    /\ SchedSent
    /\ tpc[t] = "wait"
    /\ tpc' = [tpc EXCEPT ![t] = "check"]
    /\ reqResult' = [reqResult EXCEPT ![t] = "none"]
    /\ UNCHANGED limiterVars
    /\ UNCHANGED crawlVars
    /\ UNCHANGED batchVars
    /\ UNCHANGED indexVars
    /\ UNCHANGED searchVars
    /\ UNCHANGED lockVars
    /\ UNCHANGED <<isProduction, closed, crash, tickerC, tickerStopped, timerC,
                   routineTickerClosed, spc, cpc>>

\* The send is received by Close (line 82).
GrantToClose(i) ==
    /\ Alive
    /\ SchedSent
    /\ cpc[i] = "recv"
    /\ cpc' = [cpc EXCEPT ![i] = "close"]
    /\ UNCHANGED limiterVars
    /\ UNCHANGED crawlVars
    /\ UNCHANGED batchVars
    /\ UNCHANGED indexVars
    /\ UNCHANGED searchVars
    /\ UNCHANGED lockVars
    /\ UNCHANGED <<isProduction, closed, crash, tickerC, tickerStopped, timerC,
                   routineTickerClosed, spc, tpc, reqResult>>

\* The send is received by Start (line 70).
GrantToStart ==
    /\ Alive
    /\ SchedSent
    /\ spc = "recv"
    /\ spc' = "close"
    /\ UNCHANGED limiterVars
    /\ UNCHANGED crawlVars
    /\ UNCHANGED batchVars
    /\ UNCHANGED indexVars
    /\ UNCHANGED searchVars
    /\ UNCHANGED lockVars
    /\ UNCHANGED <<isProduction, closed, crash, tickerC, tickerStopped, timerC,
                   routineTickerClosed, tpc, cpc, reqResult>>

\* <-timer.C
SchedTimer ==
    /\ Alive
    /\ gpc = "timer"
    /\ timerC = 1
    /\ timerC' = 0
    /\ gpc' = "rate"
    /\ UNCHANGED limiterVars
    /\ UNCHANGED crawlVars
    /\ UNCHANGED batchVars
    /\ UNCHANGED indexVars
    /\ UNCHANGED searchVars
    /\ UNCHANGED lockVars
    /\ UNCHANGED <<isProduction, closed, crash, tickerC, tickerStopped, timerMode,
                   routineTickerClosed, spc, tpc, cpc, reqResult>>

\* for !c.closed && !c.Reddit.IsRateLimited() { <-p.Tick() }
\* The program counter after evaluating the condition ("panic": the call panicked).
SchedRateNext(isClosed, limited) ==
    IF isClosed THEN "check"
    ELSE IF limited = "panic" THEN "panic"
    ELSE IF limited = "false" THEN "tick"
    ELSE "check"

SchedRateCheck ==
    /\ Alive
    /\ gpc = "rate"
    /\ LET next == SchedRateNext(closed, IsRateLimited(currentRateLimit, now)) IN
       IF next = "panic"
       THEN crash' = "nil dereference" /\ UNCHANGED gpc
       ELSE gpc' = next /\ UNCHANGED crash
    /\ UNCHANGED limiterVars
    /\ UNCHANGED crawlVars
    /\ UNCHANGED batchVars
    /\ UNCHANGED indexVars
    /\ UNCHANGED searchVars
    /\ UNCHANGED lockVars
    /\ UNCHANGED <<isProduction, closed, tickerC, tickerStopped, timerC, timerMode,
                   routineTickerClosed, spc, tpc, cpc, reqResult>>

SchedTick ==
    /\ Alive
    /\ gpc = "tick"
    /\ tickerC = 1
    /\ tickerC' = 0
    /\ gpc' = "rate"
    /\ UNCHANGED limiterVars
    /\ UNCHANGED crawlVars
    /\ UNCHANGED batchVars
    /\ UNCHANGED indexVars
    /\ UNCHANGED searchVars
    /\ UNCHANGED lockVars
    /\ UNCHANGED <<isProduction, closed, crash, tickerStopped, timerC, timerMode,
                   routineTickerClosed, spc, tpc, cpc, reqResult>>

\* ---- Processes.Close (lines 80-88) ----

\* p.client.closed = true
CloseCall(i) ==
    /\ Alive
    /\ cpc[i] = "idle"
    /\ \A j \in Closers : j < i => cpc[j] # "idle"   \* the invocations are numbered in the order they begin
    /\ closed' = TRUE
    /\ cpc' = [cpc EXCEPT ![i] = "recv"]
    /\ UNCHANGED limiterVars
    /\ UNCHANGED crawlVars
    /\ UNCHANGED batchVars
    /\ UNCHANGED indexVars
    /\ UNCHANGED searchVars
    /\ UNCHANGED lockVars
    /\ UNCHANGED <<isProduction, crash, tickerC, tickerStopped, timerC, timerMode,
                   routineTickerClosed, spc, gpc, tpc, reqResult>>

\* <-p.routineTicker on a closed channel returns at once.
CloseRecvClosed(i) ==
    /\ Alive
    /\ cpc[i] = "recv"
    /\ routineTickerClosed
    /\ cpc' = [cpc EXCEPT ![i] = "close"]
    /\ UNCHANGED limiterVars
    /\ UNCHANGED crawlVars
    /\ UNCHANGED batchVars
    /\ UNCHANGED indexVars
    /\ UNCHANGED searchVars
    /\ UNCHANGED lockVars
    /\ UNCHANGED <<isProduction, closed, crash, tickerC, tickerStopped, timerC, timerMode,
                   routineTickerClosed, spc, gpc, tpc, reqResult>>

\* close(p.routineTicker), then the closeFuncs (OnClose has no caller: none).
CloseChannel(i) ==
    /\ Alive
    /\ cpc[i] = "close"
    /\ IF routineTickerClosed
       THEN crash' = "close of closed channel" /\ UNCHANGED <<routineTickerClosed, cpc>>
       ELSE /\ routineTickerClosed' = TRUE
            /\ cpc' = [cpc EXCEPT ![i] = "done"]
            /\ UNCHANGED crash
    /\ UNCHANGED limiterVars
    /\ UNCHANGED crawlVars
    /\ UNCHANGED batchVars
    /\ UNCHANGED indexVars
    /\ UNCHANGED searchVars
    /\ UNCHANGED lockVars
    /\ UNCHANGED <<isProduction, closed, tickerC, tickerStopped, timerC, timerMode,
                   spc, gpc, tpc, reqResult>>

\* ---- the loop tasks (main.go 284-297, part_006 36-48) and doRequest ----

\* for !client.closed {
TaskCheck(t) ==
    /\ Alive
    /\ tpc[t] = "check"
    /\ tpc' = [tpc EXCEPT ![t] = IF closed THEN "done" ELSE "iter"]
    /\ UNCHANGED limiterVars
    /\ UNCHANGED crawlVars
    /\ UNCHANGED batchVars
    /\ UNCHANGED indexVars
    /\ UNCHANGED searchVars
    /\ UNCHANGED lockVars
    /\ UNCHANGED <<isProduction, closed, crash, tickerC, tickerStopped, timerC, timerMode,
                   routineTickerClosed, spc, gpc, cpc, reqResult>>

\* A task that leaves its loop on an error.
TaskErrorLeaving(t) ==
    /\ reqResult' = [reqResult EXCEPT ![t] = "err"]
    /\ IF isProduction
       THEN tpc' = [tpc EXCEPT ![t] = "done"] /\ UNCHANGED crash
       ELSE crash' = "exit" /\ UNCHANGED tpc

\* The iteration ended with an error: dfatal logs it and, outside production,
\* exits the process; in production the task goes on to RoutineWait.
TaskError(t) ==
    /\ reqResult' = [reqResult EXCEPT ![t] = "err"]
    /\ IF isProduction
       THEN tpc' = [tpc EXCEPT ![t] = "wait"] /\ UNCHANGED crash
       ELSE crash' = "exit" /\ UNCHANGED tpc

\* One iteration, which issues a request through doRequest (routine.go
\* 188-254).  The response is the upstream's choice: 200; a transport error
\* or a status that is neither 200 nor 429; 429 with headers that do not
\* parse (NewRateLimit fails, doRateLimit and doRequest return the error);
\* 429 with headers that parse (doRateLimit installs the snapshot and enters
\* its wait loop).
TaskIterate(t) ==
    /\ Alive
    /\ tpc[t] = "iter"
    /\ \/ /\ reqResult' = [reqResult EXCEPT ![t] = "ok200"]
          /\ tpc' = [tpc EXCEPT ![t] = "wait"]
          /\ UNCHANGED <<crash, currentRateLimit>>
       \/ /\ TaskError(t)
          /\ UNCHANGED currentRateLimit
       \/ \E rem \in RemainingValues, rs \in 1..MaxReset :
          /\ currentRateLimit' = SetRateLimit(currentRateLimit, NewRateLimit(now, rem, rs))
          /\ tpc' = [tpc EXCEPT ![t] = "rlcheck"]
          /\ UNCHANGED <<crash, reqResult>>
    /\ UNCHANGED <<now, supplied, isLimitedCall>>
    /\ UNCHANGED crawlVars
    /\ UNCHANGED batchVars
    /\ UNCHANGED indexVars
    /\ UNCHANGED searchVars
    /\ UNCHANGED lockVars
    /\ UNCHANGED <<isProduction, closed, tickerC, tickerStopped, timerC, timerMode,
                   routineTickerClosed, spc, gpc, cpc>>

\* doRateLimit: for !c.closed && !r.IsRateLimited() { <-c.Processes.Tick() }
\* "return": the loop is left and doRateLimit returns nil.
RateLimitWaitNext(isClosed, limited) ==
    IF isClosed THEN "return"
    ELSE IF limited = "panic" THEN "panic"
    ELSE IF limited = "false" THEN "rltick"
    ELSE "return"

\* When doRateLimit returns nil, doRequest falls through to `return b, nil`
\* (line 253): b is the body of the 429 response, and no request is reissued.
TaskRateLimitCheck(t) ==
    /\ Alive
    /\ tpc[t] = "rlcheck"
    /\ LET next == RateLimitWaitNext(closed, IsRateLimited(currentRateLimit, now)) IN
       IF next = "panic"
       THEN crash' = "nil dereference" /\ UNCHANGED <<tpc, reqResult>>
       ELSE IF next = "return"
       THEN /\ reqResult' = [reqResult EXCEPT ![t] = "ok429"]
            /\ tpc' = [tpc EXCEPT ![t] = "wait"]
            /\ UNCHANGED crash
       ELSE /\ tpc' = [tpc EXCEPT ![t] = next]
            /\ UNCHANGED <<crash, reqResult>>
    /\ UNCHANGED limiterVars
    /\ UNCHANGED crawlVars
    /\ UNCHANGED batchVars
    /\ UNCHANGED indexVars
    /\ UNCHANGED searchVars
    /\ UNCHANGED lockVars
    /\ UNCHANGED <<isProduction, closed, tickerC, tickerStopped, timerC, timerMode,
                   routineTickerClosed, spc, gpc, cpc>>

TaskRateLimitTick(t) ==
    /\ Alive
    /\ tpc[t] = "rltick"
    /\ tickerC = 1
    /\ tickerC' = 0
    /\ tpc' = [tpc EXCEPT ![t] = "rlcheck"]
    /\ UNCHANGED limiterVars
    /\ UNCHANGED crawlVars
    /\ UNCHANGED batchVars
    /\ UNCHANGED indexVars
    /\ UNCHANGED searchVars
    /\ UNCHANGED lockVars
    /\ UNCHANGED <<isProduction, closed, crash, tickerStopped, timerC, timerMode,
                   routineTickerClosed, spc, gpc, cpc, reqResult>>

\* RoutineWait: <-p.routineTicker on a closed channel returns at once.
TaskWaitClosed(t) ==
    /\ Alive
    /\ tpc[t] = "wait"
    /\ routineTickerClosed
    /\ tpc' = [tpc EXCEPT ![t] = "check"]
    /\ reqResult' = [reqResult EXCEPT ![t] = "none"]
    /\ UNCHANGED limiterVars
    /\ UNCHANGED crawlVars
    /\ UNCHANGED batchVars
    /\ UNCHANGED indexVars
    /\ UNCHANGED searchVars
    /\ UNCHANGED lockVars
    /\ UNCHANGED <<isProduction, closed, crash, tickerC, tickerStopped, timerC, timerMode,
                   routineTickerClosed, spc, gpc, cpc>>

\* The state when main has spawned the tasks and called Start, which has
\* created the loopDelay ticker and spawned its goroutine.
SchedInit ==
    /\ closed = FALSE
    /\ crash = "none"
    /\ tickerC = 0
    /\ tickerStopped = FALSE
    /\ timerC = 0
    /\ timerMode = "periodic"
    /\ routineTickerClosed = FALSE
    /\ spc = "loop"
    /\ gpc = "check"
    /\ tpc = [t \in Tasks |-> "check"]
    /\ cpc = [i \in Closers |-> "idle"]
    /\ reqResult = [t \in Tasks |-> "none"]

(***************************************************************************)
(* The listing crawl: analyzeRedditSubmissions and checkSubmissions        *)
(* (routine.go), getSubmissions (reddit.go), the anchors (redis.go) and    *)
(* NewSearch (search.go).                                                  *)
(*                                                                         *)
(* A Go string is a TLA+ string, "" the empty one.  The count parameter is *)
(* only forwarded to the upstream and is left out.                         *)
(***************************************************************************)

\* The fullname of the i-th submission of the listing: the prefix "t3_" and
\* a base-36 id of length 6.
FullID(i) == "t3_00000" \o ToString(i)

\* The creation time of the i-th submission; the listing is newest first.
CreatedAt(i) == ListingSize - i + 1

\* The upstream listing (/r/<subreddit>/new), a fixed total order.
Listing ==
    [i \in 1..ListingSize |-> [FullID |-> FullID(i), Created |-> Ptr(CreatedAt(i))]]

IndexOf(fullID) == CHOOSE i \in 1..ListingSize : Listing[i].FullID = fullID

Min(a, b) == IF a <= b THEN a ELSE b

\* The response decoded into SubmissionData for the submissions first..last
\* of the listing (none when last < first): the posts and the two cursors,
\* which the upstream leaves empty at the ends of the listing.
PageOf(first, last) ==
    [Posts  |-> [j \in 1..(last - first + 1) |-> Listing[first + j - 1]],
     After  |-> IF first <= last /\ last < ListingSize THEN FullID(last) ELSE "",
     Before |-> IF first <= last /\ first > 1 THEN FullID(first) ELSE ""]

EmptyPage == PageOf(1, 0)

PageFromStart == PageOf(1, Min(SearchLimit, ListingSize))

\* The page of the submissions that follow `fullID` in the listing.
PageAfter(fullID) ==
    LET k == IndexOf(fullID) IN PageOf(k + 1, Min(k + SearchLimit, ListingSize))

\* The page of the submissions that immediately precede `fullID`.
PageBefore(fullID) ==
    LET k == IndexOf(fullID) IN PageOf(IF k - SearchLimit < 1 THEN 1 ELSE k - SearchLimit, k - 1)

\* What the upstream may answer to a query carrying `after` and `before`.
\* The listing API defines the answer for at most one cursor; with both it
\* is the upstream's choice which one it honours (`ambiguous`).
Upstream(after, before) ==
    IF after # "" /\ before # ""
    THEN {[page |-> PageAfter(after), ambiguous |-> FALSE],
          [page |-> PageBefore(before), ambiguous |-> TRUE]}
    ELSE IF after # "" THEN {[page |-> PageAfter(after), ambiguous |-> FALSE]}
    ELSE IF before # "" THEN {[page |-> PageBefore(before), ambiguous |-> FALSE]}
    ELSE {[page |-> PageFromStart, ambiguous |-> FALSE]}

\* The cursors of the query getSubmissions sends for the params `p`
\* (reddit.go 197-198): "after" carries p.After, and "before" carries
\* p.After as well.
Query(p) == [after |-> p.After, before |-> p.After]

\* The outcomes of doRedditGetRequest and json.Unmarshal in getSubmissions
\* for the query built from `p`: "after" carries p.After and "before"
\* carries p.After as well (reddit.go 197-198).  "request": the request
\* returned an error (transport, or a status that is not 200); "decode":
\* the body did not unmarshal, `page` being what was decoded before the
\* error; "ok": the page.
Responses(p) ==
    LET answers == Upstream(Query(p).after, Query(p).before) IN
    { [kind |-> "ok", page |-> a.page, ambiguous |-> a.ambiguous] : a \in answers }
    \cup { [kind |-> "decode", page |-> a.page, ambiguous |-> a.ambiguous] : a \in answers }
    \cup { [kind |-> "request", page |-> EmptyPage, ambiguous |-> FALSE] }

\* setAnchor stores fmt.Sprintf("%s:%f", fullID, epoch): two fields joined
\* by RedisDelimiter.
FormatAnchor(fullID, epoch) == <<fullID, epoch>>

setAnchor(rds, anchorKey, fullID, epoch) ==
    [rds EXCEPT ![anchorKey] = Ptr(FormatAnchor(fullID, epoch))]

\* How go-redis v8 writes a bool argument: as the integer 1 or 0.
FormatBool(b) == IF b THEN "1" ELSE "0"

\* setCurrentAnchor: the anchor, then the direction flag.
setCurrentAnchor(rds, anchorKey, fullID, epoch, isForwards) ==
    [setAnchor(rds, anchorKey, fullID, epoch) EXCEPT !.IsForwards = Ptr(FormatBool(isForwards))]

\* checkFullName: the prefix "t3_" and a non-negative base-36 id of length 6.
checkFullName(fullID) == fullID \in { FullID(i) : i \in 1..9 }

\* getAnchor: Nil (with an error) when the key is unset, when the value
\* does not split into two parts or when the fullname is malformed.
getAnchor(rds, anchorKey) ==
    IF rds[anchorKey] = Nil THEN Nil
    ELSE LET anchorParts == Deref(rds[anchorKey]) IN
         IF Len(anchorParts) # 2 THEN Nil
         ELSE IF ~checkFullName(anchorParts[1]) THEN Nil
         ELSE Ptr([FullID |-> anchorParts[1], Epoch |-> anchorParts[2]])

\* NewSearch: the in-memory Search, loaded from the store at start-up and
\* not written afterwards.
NewSearch(rds) ==
    [Current |-> getAnchor(rds, "Current"),
     Start   |-> getAnchor(rds, "Start"),
     End     |-> getAnchor(rds, "End")]

\* checkSubmissions with the nil test of line 132 the other way round, so
\* that the comparison of line 134 is reached and End is written.
checkSubmissionsWritingEnd(posts, isForwards, rds, srch) ==
    IF Len(posts.Posts) = 0
       /\ ((posts.After = "" /\ isForwards) \/ (posts.Before = "" /\ ~isForwards))
    THEN [panic |-> FALSE, redis |-> rds]
    ELSE IF Len(posts.Posts) = 0
    THEN [panic |-> TRUE, redis |-> rds]
    ELSE IF isForwards
    THEN LET lastSubmission == posts.Posts[Len(posts.Posts)] IN
         IF lastSubmission.Created = Nil
         THEN [panic |-> FALSE, redis |-> rds]
         ELSE LET withEnd ==
                      IF srch.End = Nil
                         \/ Deref(lastSubmission.Created) < Deref(srch.End).Epoch
                      THEN setAnchor(rds, "End", lastSubmission.FullID,
                                     Deref(lastSubmission.Created))
                      ELSE rds
              IN [panic |-> FALSE,
                  redis |-> setCurrentAnchor(withEnd, "Current", lastSubmission.FullID,
                                             Deref(lastSubmission.Created), TRUE)]
    ELSE LET firstSubmission == posts.Posts[1] IN
         IF firstSubmission.Created = Nil
         THEN [panic |-> FALSE, redis |-> rds]
         ELSE LET withStart ==
                      IF srch.Start = Nil
                         \/ ~(Deref(srch.Start).Epoch < Deref(firstSubmission.Created))
                      THEN setAnchor(rds, "Start", firstSubmission.FullID,
                                     Deref(firstSubmission.Created))
                      ELSE rds
              IN [panic |-> FALSE,
                  redis |-> setCurrentAnchor(withStart, "Current", firstSubmission.FullID,
                                             Deref(firstSubmission.Created), FALSE)]

\* checkSubmissions: the store after the call, or a panic (which happens
\* before any write).
checkSubmissions(posts, isForwards, rds, srch) ==
    IF Len(posts.Posts) = 0
       /\ ((posts.After = "" /\ isForwards) \/ (posts.Before = "" /\ ~isForwards))
    THEN [panic |-> FALSE, redis |-> rds]
    ELSE IF Len(posts.Posts) = 0
    THEN [panic |-> TRUE, redis |-> rds]      \* posts.Posts[len-1] or posts.Posts[0]: index out of range
    ELSE IF isForwards
    THEN LET lastSubmission == posts.Posts[Len(posts.Posts)] IN
         IF lastSubmission.Created # Nil
         THEN \* the branch that only logs; End is not written
              [panic |-> FALSE,
               redis |-> setCurrentAnchor(rds, "Current", lastSubmission.FullID,
                                          Deref(lastSubmission.Created), TRUE)]
         ELSE \* Created is nil and is dereferenced in either operand of line 134/135
              [panic |-> TRUE, redis |-> rds]
    ELSE LET firstSubmission == posts.Posts[1] IN
         IF firstSubmission.Created = Nil
         THEN [panic |-> FALSE, redis |-> rds]
         ELSE LET withStart ==
                      IF srch.Start = Nil
                         \/ ~(Deref(srch.Start).Epoch < Deref(firstSubmission.Created))
                      THEN setAnchor(rds, "Start", firstSubmission.FullID,
                                     Deref(firstSubmission.Created))
                      ELSE rds
              IN [panic |-> FALSE,
                  redis |-> setCurrentAnchor(withStart, "Current", firstSubmission.FullID,
                                             Deref(firstSubmission.Created), FALSE)]

\* What getSubmissions hands back when it returns an error.
FetchError(err, rds, query) ==
    [err |-> err, panic |-> FALSE, redis |-> rds, Submissions |-> <<>>, Next |-> Nil,
     query |-> query]

\* A next page that is never nil: the cursor the response carries is copied
\* even when it is empty (lines 224-226 and 229-231 left out).
NextParamsNeverNil(p, page) ==
    IF p.Before # ""
    THEN Ptr([p EXCEPT !.Before = page.Before])
    ELSE Ptr([p EXCEPT !.After = page.After])

\* The ListingOptions for the next page: nil when the cursor of the
\* direction of travel comes back empty.
NextParams(p, page) ==
    IF p.Before # ""
    THEN IF page.Before = "" THEN Nil ELSE Ptr([p EXCEPT !.Before = page.Before])
    ELSE IF page.After = "" THEN Nil ELSE Ptr([p EXCEPT !.After = page.After])

\* getSubmissions without the test of lines 175-180: params with both
\* cursors go on to the request as forward params do.
getSubmissionsUnguarded(p, resp, rds, srch) ==
    LET isForwards == ~(p.Before # "") IN
    IF resp.kind = "request" THEN FetchError("request", rds, Ptr(Query(p)))
    ELSE IF resp.kind = "decode" THEN FetchError("decode", rds, Ptr(Query(p)))
    ELSE LET chk == checkSubmissions(resp.page, isForwards, rds, srch) IN
         IF chk.panic
         THEN [err |-> "none", panic |-> TRUE, redis |-> rds, Submissions |-> <<>>, Next |-> Nil,
               query |-> Ptr(Query(p))]
         ELSE [err |-> "none", panic |-> FALSE, redis |-> chk.redis,
               Submissions |-> resp.page.Posts, Next |-> NextParams(p, resp.page),
               query |-> Ptr(Query(p))]

\* A plausible slip: the decoded page is checked (and the anchors written)
\* before the decode error is looked at.
getSubmissionsCheckFirst(p, resp, rds, srch) ==
    LET isForwards == ~(p.Before # "") IN
    IF p.Before # "" /\ p.After # "" THEN FetchError("both", rds, Nil)
    ELSE IF resp.kind = "request" THEN FetchError("request", rds, Ptr(Query(p)))
    ELSE LET chk == checkSubmissions(resp.page, isForwards, rds, srch) IN
         IF chk.panic
         THEN [err |-> "none", panic |-> TRUE, redis |-> rds, Submissions |-> <<>>, Next |-> Nil,
               query |-> Ptr(Query(p))]
         ELSE IF resp.kind = "decode" THEN FetchError("decode", chk.redis, Ptr(Query(p)))
         ELSE [err |-> "none", panic |-> FALSE, redis |-> chk.redis,
               Submissions |-> resp.page.Posts, Next |-> NextParams(p, resp.page),
               query |-> Ptr(Query(p))]

\* getSubmissions for the params `p` and the outcome `resp` of its request:
\* the error ("none" when it returns a response), whether it panicked, the
\* store after the call, the submissions, the params of the next page and
\* the query it sent (Nil when it sent none).
getSubmissions(p, resp, rds, srch) ==
    LET isForwards == ~(p.Before # "") IN
    IF p.Before # "" /\ p.After # "" THEN FetchError("both", rds, Nil)
    ELSE IF resp.kind = "request" THEN FetchError("request", rds, Ptr(Query(p)))
    ELSE IF resp.kind = "decode" THEN FetchError("decode", rds, Ptr(Query(p)))
    ELSE LET chk == checkSubmissions(resp.page, isForwards, rds, srch) IN
         IF chk.panic
         THEN [err |-> "none", panic |-> TRUE, redis |-> rds, Submissions |-> <<>>, Next |-> Nil,
               query |-> Ptr(Query(p))]
         ELSE [err |-> "none", panic |-> FALSE, redis |-> chk.redis,
               Submissions |-> resp.page.Posts, Next |-> NextParams(p, resp.page),
               query |-> Ptr(Query(p))]

\* The ListingOptions main hands to AnalyzeSubmissions: no cursor.
initialParams == [Before |-> "", After |-> ""]

\* analyzeRedditSubmissions, lines 61-81: the params the iteration starts
\* with.  The stored flag is compared with "true".
ResumeParams(rds, p) ==
    LET currentAnchor == getAnchor(rds, "Current") IN
    IF currentAnchor = Nil THEN p
    ELSE IF rds.IsForwards = Nil THEN [p EXCEPT !.Before = Deref(currentAnchor).FullID]
    ELSE IF Deref(rds.IsForwards) = "true" THEN [p EXCEPT !.After = Deref(currentAnchor).FullID]
    ELSE [p EXCEPT !.Before = Deref(currentAnchor).FullID]

\* The submissions of a page counted as visited once more.
Visit(v, posts) ==
    [id \in DOMAIN v |->
        IF \E j \in 1..Len(posts) : posts[j].FullID = id
        THEN Min(v[id] + 1, MaxVisits) ELSE v[id]]

\* A hash or a sorted set is a function from its fields or members to
\* their values or scores.
EmptyMap == [k \in {} |-> 0]

\* HSET of fields and ZADD of members: a field or member already there
\* takes the value or score written last.
HSet(hash, fields) ==
    [k \in DOMAIN hash \cup DOMAIN fields |-> IF k \in DOMAIN fields THEN fields[k] ELSE hash[k]]

\* A ZADD that adds the score to the score the member has.
ZAddIncrementing(zset, members) ==
    [k \in DOMAIN zset \cup DOMAIN members |->
        IF k \in DOMAIN members
        THEN (IF k \in DOMAIN zset THEN zset[k] + members[k] ELSE members[k])
        ELSE zset[k]]

ZAdd(zset, members) ==
    [k \in DOMAIN zset \cup DOMAIN members |-> IF k \in DOMAIN members THEN members[k] ELSE zset[k]]

\* The submissions the crawl hands to updateVotes: those of a page of the
\* listing, with the ID (the full name without its "t3_") and the upvotes.
ShortID(i) == "00000" \o ToString(i)

Crawled(posts) ==
    [j \in 1..Len(posts) |->
        [ID |-> ShortID(IndexOf(posts[j].FullID)), FullID |-> posts[j].FullID,
         Ups |-> IndexOf(posts[j].FullID)]]

\* updateVotes: one ZADD on the upvote set, the member being submission.ID.
updateVotes(idx, submissions, failed) ==
    IF failed THEN [err |-> "upvotes", index |-> idx]
    ELSE [err |-> "none",
          index |-> [idx EXCEPT !.upvotes =
                        ZAdd(@, [id \in { submissions[j].ID : j \in 1..Len(submissions) } |->
                                    (CHOOSE v \in { submissions[j].Ups : j \in 1..Len(submissions) } :
                                        \E j \in 1..Len(submissions) :
                                            submissions[j].ID = id /\ submissions[j].Ups = v)])]]

\* An iteration begins: analyzeRedditSubmissions up to its loop.
CrawlStart ==
    /\ Alive
    /\ kpc = "idle"
    /\ params' = ResumeParams(redis, initialParams)
    /\ kpc' = "loop"
    /\ UNCHANGED <<redis, search, visits, failure, honouredBefore, pageCall>>
    /\ UNCHANGED limiterVars
    /\ UNCHANGED batchVars
    /\ UNCHANGED indexVars
    /\ UNCHANGED searchVars
    /\ UNCHANGED lockVars
    /\ UNCHANGED <<isProduction, closed, crash, tickerC, tickerStopped, timerC, timerMode,
                   routineTickerClosed, spc, gpc, tpc, cpc, reqResult>>

\* The upstream answers every query that carries both cursors the same way:
\* by `before` when honouredBefore, and by `after` otherwise.
Honoured(p, resp) ==
    (resp.kind # "request" /\ Query(p).after # "" /\ Query(p).before # "") =>
        resp.ambiguous = honouredBefore

\* One turn of the loop of analyzeRedditSubmissions: getSubmissions (with
\* checkSubmissions), then the loop body.  An error ends the iteration:
\* AnalyzeSubmissions logs it in production and otherwise returns it to the
\* task, whose dfatal exits the process.
CrawlFetch ==
    /\ Alive
    /\ kpc = "loop"
    /\ \E resp \in Responses(params) :
         LET r == getSubmissions(params, resp, redis, search) IN
         /\ Honoured(params, resp)
         /\ redis' = r.redis
         /\ pageCall' = Ptr([op |-> "fetch", posts |-> resp.page,
                             isForwards |-> ~(params.Before # ""), params |-> params,
                             query |-> r.query, err |-> r.err, panic |-> r.panic,
                             next |-> r.Next])
         /\ IF r.panic
            THEN /\ crash' = "panic"
                 /\ kpc' = "idle"
                 /\ params' = initialParams
                 /\ UNCHANGED <<visits, failure, index>>
            ELSE IF r.err # "none"
            THEN /\ failure' = Ptr([kind |-> r.err, redis |-> redis])
                 /\ crash' = IF isProduction THEN crash ELSE "exit"
                 /\ kpc' = "idle"
                 /\ params' = initialParams
                 /\ UNCHANGED <<visits, index>>
            ELSE /\ failure' = Nil
                 /\ visits' = Visit(visits, r.Submissions)
                 /\ index' = IF Len(r.Submissions) = 0 THEN index
                             ELSE updateVotes(index, Crawled(r.Submissions), FALSE).index
                 /\ IF Len(r.Submissions) = 0 \/ r.Next = Nil
                    THEN kpc' = "idle" /\ params' = initialParams
                    ELSE params' = Deref(r.Next) /\ UNCHANGED kpc
                 /\ UNCHANGED crash
    /\ UNCHANGED <<search, honouredBefore>>
    /\ UNCHANGED limiterVars
    /\ UNCHANGED batchVars
    /\ UNCHANGED <<ingestCall, bpc, returned>>
    /\ UNCHANGED searchVars
    /\ UNCHANGED lockVars
    /\ UNCHANGED <<isProduction, closed, tickerC, tickerStopped, timerC, timerMode,
                   routineTickerClosed, spc, gpc, tpc, cpc, reqResult>>

\* The process is started again, between two iterations or after it ended
\* (with which the iteration under way ended too): NewClient builds the
\* Search from the store.
CrawlRestart ==
    /\ kpc = "idle"
    /\ crash' = "none"
    /\ kpc' = "idle"
    /\ params' = initialParams
    /\ search' = NewSearch(redis)
    /\ UNCHANGED <<redis, visits, failure, honouredBefore, pageCall>>
    /\ UNCHANGED limiterVars
    /\ UNCHANGED batchVars
    /\ UNCHANGED indexVars
    /\ UNCHANGED searchVars
    /\ UNCHANGED lockVars
    /\ UNCHANGED <<isProduction, closed, tickerC, tickerStopped, timerC, timerMode,
                   routineTickerClosed, spc, gpc, tpc, cpc, reqResult>>

\* An empty store and a client built from it.
CrawlInit ==
    /\ redis = [Current |-> Nil, Start |-> Nil, End |-> Nil, IsForwards |-> Nil]
    /\ search = NewSearch([Current |-> Nil, Start |-> Nil, End |-> Nil, IsForwards |-> Nil])
    /\ kpc = "idle"
    /\ params = initialParams
    /\ visits = [id \in { FullID(i) : i \in 1..ListingSize } |-> 0]
    /\ failure = Nil
    /\ honouredBefore \in BOOLEAN
    /\ pageCall = Nil

(***************************************************************************)
(* checkSubmissions and getSubmissions called directly, on any page and    *)
(* with any params, on a store that persists from earlier runs.            *)
(***************************************************************************)

\* The pages a response can decode to: up to SearchLimit consecutive
\* submissions of the listing with the cursors of their place in it, and
\* pages without submissions that carry any cursors.
Pages ==
    { PageOf(r[1], r[2]) :
        r \in { q \in (1..ListingSize) \X (1..ListingSize) :
                   q[1] <= q[2] /\ q[2] - q[1] < SearchLimit } }
    \cup { [Posts |-> << >>, After |-> a, Before |-> b] :
              a \in {"", FullID(1)}, b \in {"", FullID(1)} }

\* The ListingOptions a caller can hand to getSubmissions.
ParamSets ==
    { [Before |-> b, After |-> a] : a \in {"", FullID(1)}, b \in {"", FullID(2)} }

\* checkSubmissions(posts, isForwards) on the current store and Search.
PageCheck ==
    /\ Alive
    /\ \E posts \in Pages, isForwards \in BOOLEAN :
         LET r == checkSubmissions(posts, isForwards, redis, search) IN
         /\ redis' = r.redis
         /\ crash' = IF r.panic THEN "panic" ELSE crash
         /\ pageCall' = Ptr([op |-> "check", posts |-> posts, isForwards |-> isForwards,
                             params |-> initialParams, query |-> Nil, err |-> "none",
                             panic |-> r.panic])
    /\ UNCHANGED <<search, kpc, params, visits, failure, honouredBefore>>
    /\ UNCHANGED limiterVars
    /\ UNCHANGED batchVars
    /\ UNCHANGED indexVars
    /\ UNCHANGED searchVars
    /\ UNCHANGED lockVars
    /\ UNCHANGED <<isProduction, closed, tickerC, tickerStopped, timerC, timerMode,
                   routineTickerClosed, spc, gpc, tpc, cpc, reqResult>>

\* getSubmissions(p) on the current store and Search; with both cursors
\* set it calls dfatal, which exits the process outside production.
PageGet ==
    /\ Alive
    /\ \E p \in ParamSets :
         \E resp \in Responses(p) :
           LET r == getSubmissions(p, resp, redis, search) IN
           /\ redis' = r.redis
           /\ crash' = IF r.panic THEN "panic"
                       ELSE IF r.err = "both" /\ ~isProduction THEN "exit"
                       ELSE crash
           /\ pageCall' = Ptr([op |-> "get", posts |-> resp.page, isForwards |-> ~(p.Before # ""),
                               params |-> p, query |-> r.query, err |-> r.err,
                               panic |-> r.panic])
    /\ UNCHANGED <<search, kpc, params, visits, failure, honouredBefore>>
    /\ UNCHANGED limiterVars
    /\ UNCHANGED batchVars
    /\ UNCHANGED indexVars
    /\ UNCHANGED searchVars
    /\ UNCHANGED lockVars
    /\ UNCHANGED <<isProduction, closed, tickerC, tickerStopped, timerC, timerMode,
                   routineTickerClosed, spc, gpc, tpc, cpc, reqResult>>

\* The process is started again: NewClient builds the Search from the store.
PageRestart ==
    /\ crash' = "none"
    /\ search' = NewSearch(redis)
    /\ pageCall' = Nil
    /\ UNCHANGED <<redis, kpc, params, visits, failure, honouredBefore>>
    /\ UNCHANGED limiterVars
    /\ UNCHANGED batchVars
    /\ UNCHANGED indexVars
    /\ UNCHANGED searchVars
    /\ UNCHANGED lockVars
    /\ UNCHANGED <<isProduction, closed, tickerC, tickerStopped, timerC, timerMode,
                   routineTickerClosed, spc, gpc, tpc, cpc, reqResult>>

\* The End anchors an earlier run may have left in the store (this code
\* reads End and never writes it): none, or the second newest submission.
StoredEnds == { Nil, Ptr(FormatAnchor(FullID(2), CreatedAt(2))) }

\* A client built from a store that persists from earlier runs.
PageInit ==
    /\ \E end \in StoredEnds :
         /\ redis = [Current |-> Nil, Start |-> Nil, End |-> end, IsForwards |-> Nil]
         /\ search = NewSearch([Current |-> Nil, Start |-> Nil, End |-> end, IsForwards |-> Nil])
    /\ kpc = "idle"
    /\ params = initialParams
    /\ visits = [id \in { FullID(i) : i \in 1..ListingSize } |-> 0]
    /\ failure = Nil
    /\ honouredBefore = FALSE
    /\ pageCall = Nil

(***************************************************************************)
(* The backfill from Pushshift: pushshift.go and historical_data.go.       *)
(***************************************************************************)

PushshiftID(i) == "p" \o ToString(i)

\* The archive, newest first; two submissions share each epoch.
EpochOf(i) == (ArchiveSize - i) \div 2 + 1

Archive == [i \in 1..ArchiveSize |-> [ID |-> PushshiftID(i), Epoch |-> EpochOf(i)]]

Readers == {"Client", "History"}

\* The sequences of length n of distinct submissions of the archive.
RECURSIVE DistinctSeqs(_)
DistinctSeqs(n) ==
    IF n = 0 THEN { << >> }
    ELSE UNION { { Append(b, Archive[i]) :
                     i \in { k \in 1..ArchiveSize : \A j \in 1..Len(b) : b[j] # Archive[k] } } :
                 b \in DistinctSeqs(n - 1) }

\* What readSubmissionBatch can return: an error without submissions, or
\* the decoded data, up to BatchLimit distinct submissions.
Batches ==
    { [kind |-> "error", data |-> << >>] }
    \cup { [kind |-> "ok", data |-> b] : b \in UNION { DistinctSeqs(n) : n \in 0..BatchLimit } }

\* The indices of a batch whose submission has the ID of the last batch's
\* last submission.
Matches(submissions, lastID) ==
    { i \in 1..Len(submissions) : submissions[i].ID = lastID }

\* The loop with the slice taken from the matching submission on.
DropBeforeMatch(submissions, lastID) ==
    IF Matches(submissions, lastID) = {} THEN submissions
    ELSE LET i == CHOOSE k \in Matches(submissions, lastID) :
                      \A m \in Matches(submissions, lastID) : k <= m
         IN SubSeq(submissions, i, Len(submissions))

\* The loop with the slice taken one submission further on.
DropPastMatch(submissions, lastID) ==
    IF Matches(submissions, lastID) = {} THEN submissions
    ELSE LET i == CHOOSE k \in Matches(submissions, lastID) :
                      \A m \in Matches(submissions, lastID) : k <= m
         IN SubSeq(submissions, i + 2, Len(submissions))

\* The loop of ReadSubmissionBatch: the batch from behind the first
\* submission that has that ID, or the whole batch when none has.
DropThroughMatch(submissions, lastID) ==
    IF Matches(submissions, lastID) = {} THEN submissions
    ELSE LET i == CHOOSE k \in Matches(submissions, lastID) :
                      \A m \in Matches(submissions, lastID) : k <= m
         IN SubSeq(submissions, i + 1, Len(submissions))

\* readSubmissionBatch, the request: no `before` while h.last is nil, and
\* afterwards the epoch of h.last plus one, so that the epoch of h.last is
\* included.
RequestBefore(h) ==
    IF h.last = Nil THEN Nil ELSE Ptr(Deref(h.last).Epoch + 1)

\* ReadSubmissionBatch without the increment of history.last.DateCreated
\* (pushshift.go 165).
ReadSubmissionBatchSameEpoch(rdr, h, resp) ==
    IF h.done THEN [submissions |-> << >>, err |-> "read", history |-> h, request |-> Nil]
    ELSE IF resp.kind = "error"
    THEN [submissions |-> resp.data, err |-> "request", history |-> h,
          request |-> Ptr([before |-> RequestBefore(h)])]
    ELSE LET lastBatch == IF h.last # Nil THEN Deref(h.last) ELSE [ID |-> "", Epoch |-> 0]
             submissions == DropThroughMatch(resp.data, lastBatch.ID)
         IN IF Len(submissions) = 0
               \/ (rdr = "Client" /\ Len(submissions) = 1 /\ submissions[1].ID = lastBatch.ID)
            THEN [submissions |-> << >>, err |-> "read",
                  history |-> [last |-> Nil, done |-> TRUE],
                  request |-> Ptr([before |-> RequestBefore(h)])]
            ELSE LET lastSubmission == submissions[Len(submissions)] IN
                 IF lastSubmission.Epoch = lastBatch.Epoch
                 THEN [submissions |-> submissions, err |-> "skip",
                       history |-> [last |-> Ptr(lastSubmission), done |-> FALSE],
                       request |-> Ptr([before |-> RequestBefore(h)])]
                 ELSE [submissions |-> submissions, err |-> "none",
                       history |-> [last |-> Ptr(lastSubmission), done |-> FALSE],
                       request |-> Ptr([before |-> RequestBefore(h)])]

\* ReadSubmissionBatch without the test of history.done (pushshift.go
\* 122-124): a call after the last batch sends its request again.
ReadSubmissionBatchAgain(rdr, h, resp) ==
    IF resp.kind = "error"
    THEN [submissions |-> resp.data, err |-> "request", history |-> h,
          request |-> Ptr([before |-> RequestBefore(h)])]
    ELSE LET lastBatch == IF h.last # Nil THEN Deref(h.last) ELSE [ID |-> "", Epoch |-> 0]
             submissions == DropThroughMatch(resp.data, lastBatch.ID)
         IN IF Len(submissions) = 0
               \/ (rdr = "Client" /\ Len(submissions) = 1 /\ submissions[1].ID = lastBatch.ID)
            THEN [submissions |-> << >>, err |-> "read",
                  history |-> [last |-> Nil, done |-> TRUE],
                  request |-> Ptr([before |-> RequestBefore(h)])]
            ELSE LET lastSubmission == submissions[Len(submissions)] IN
                 IF lastSubmission.Epoch = lastBatch.Epoch
                 THEN [submissions |-> submissions, err |-> "skip",
                       history |-> [last |-> Ptr([lastSubmission EXCEPT !.Epoch = @ + 1]),
                                    done |-> FALSE],
                       request |-> Ptr([before |-> RequestBefore(h)])]
                 ELSE [submissions |-> submissions, err |-> "none",
                       history |-> [last |-> Ptr(lastSubmission), done |-> FALSE],
                       request |-> Ptr([before |-> RequestBefore(h)])]

\* ReadSubmissionBatch forgetting history.last when readSubmissionBatch
\* returns an error (pushshift.go 128-131 return before any assignment).
ReadSubmissionBatchForgetting(rdr, h, resp) ==
    IF h.done THEN [submissions |-> << >>, err |-> "read", history |-> h, request |-> Nil]
    ELSE IF resp.kind = "error"
    THEN [submissions |-> resp.data, err |-> "request",
          history |-> [last |-> Nil, done |-> FALSE],
          request |-> Ptr([before |-> RequestBefore(h)])]
    ELSE ReadSubmissionBatchAgain(rdr, h, resp)

\* ReadSubmissionBatch of the reader `rdr` on the state `h`, `resp` being
\* what readSubmissionBatch returns: the submissions and the error it
\* returns ("none" for nil, "read" for ErrSubmissionsRead, "skip" for
\* ErrMaySkipSubmissions, "request" for a failed request), the state after
\* the call and the request it sent (Nil when it sent none).  lastBatch is
\* the zero PushshiftSubmission when h.last is nil.
ReadSubmissionBatch(rdr, h, resp) ==
    IF h.done THEN [submissions |-> << >>, err |-> "read", history |-> h, request |-> Nil]
    ELSE IF resp.kind = "error"
    THEN [submissions |-> resp.data, err |-> "request", history |-> h,
          request |-> Ptr([before |-> RequestBefore(h)])]
    ELSE LET lastBatch == IF h.last # Nil THEN Deref(h.last) ELSE [ID |-> "", Epoch |-> 0]
             submissions == DropThroughMatch(resp.data, lastBatch.ID)
         IN IF Len(submissions) = 0
               \/ (rdr = "Client" /\ Len(submissions) = 1 /\ submissions[1].ID = lastBatch.ID)
            THEN [submissions |-> << >>, err |-> "read",
                  history |-> [last |-> Nil, done |-> TRUE],
                  request |-> Ptr([before |-> RequestBefore(h)])]
            ELSE LET lastSubmission == submissions[Len(submissions)] IN
                 IF lastSubmission.Epoch = lastBatch.Epoch
                 THEN [submissions |-> submissions, err |-> "skip",
                       history |-> [last |-> Ptr([lastSubmission EXCEPT !.Epoch = @ + 1]),
                                    done |-> FALSE],
                       request |-> Ptr([before |-> RequestBefore(h)])]
                 ELSE [submissions |-> submissions, err |-> "none",
                       history |-> [last |-> Ptr(lastSubmission), done |-> FALSE],
                       request |-> Ptr([before |-> RequestBefore(h)])]

\* One call of ReadSubmissionBatch.
BatchRead ==
    /\ Alive
    /\ \E resp \in Batches :
         LET r == ReadSubmissionBatch(reader, history, resp) IN
         /\ history' = r.history
         /\ batchCall' = Ptr([stored |-> history, resp |-> resp,
                              submissions |-> r.submissions, err |-> r.err,
                              request |-> r.request])
    /\ UNCHANGED reader
    /\ UNCHANGED limiterVars
    /\ UNCHANGED schedVars
    /\ UNCHANGED crawlVars
    /\ UNCHANGED indexVars
    /\ UNCHANGED searchVars
    /\ UNCHANGED lockVars

\* The process is started again: NewPushshiftSearch.
BatchRestart ==
    /\ history' = [last |-> Nil, done |-> FALSE]
    /\ batchCall' = Nil
    /\ UNCHANGED reader
    /\ UNCHANGED limiterVars
    /\ UNCHANGED schedVars
    /\ UNCHANGED crawlVars
    /\ UNCHANGED indexVars
    /\ UNCHANGED searchVars
    /\ UNCHANGED lockVars

BatchInit ==
    /\ history = [last |-> Nil, done |-> FALSE]
    /\ batchCall = Nil

(***************************************************************************)
(* The index in Redis: addSubmissions of redis.go.                         *)
(***************************************************************************)

\* Config.Constants.Searches: the alias rows, the canonical term first.
Searches == << <<"guide", "howto">>, <<"map">> >>

\* The titles (as words), flairs and upvotes the submissions carry.
TitlePool == << <<"news">>, <<"howto", "map">>, <<"guide">> >>
FlairPool == << "", "Guide" >>

\* The submission of the archive at position i with all its fields.
SubmissionOf(i) ==
    [ID            |-> PushshiftID(i),
     Title         |-> TitlePool[(i % Len(TitlePool)) + 1],
     Permalink     |-> "/r/" \o PushshiftID(i),
     Ups           |-> i,
     LinkFlairText |-> FlairPool[(i % Len(FlairPool)) + 1],
     DateCreated   |-> EpochOf(i)]

\* The submission a record of a batch stands for.
FullSubmission(rec) ==
    SubmissionOf(CHOOSE i \in 1..ArchiveSize : PushshiftID(i) = rec.ID)

\* The words of the model that differ by case only, folded as the (?i) of
\* the expression of getTitleMatches folds them.
Fold(word) ==
    CASE word = "Guide" -> "guide"
      [] word = "Map" -> "map"
      [] OTHER -> word

\* getTitleMatches: the canonical term of every alias row one of whose
\* aliases is a word of the title, in the order of the rows.
getTitleMatches(title) ==
    LET matched(row) ==
            \E a \in 1..Len(row) : \E w \in 1..Len(title) : Fold(title[w]) = Fold(row[a])
        rows == SelectSeq(Searches, matched)
    IN [j \in 1..Len(rows) |-> rows[j][1]]

\* ZADD on the sorted set named `name` of a family of sorted sets (the flair
\* sets, the search sets), which it creates when there is none.
ZAddNamed(family, name, members) ==
    [n \in DOMAIN family \cup {name} |->
        IF n = name
        THEN ZAdd(IF name \in DOMAIN family THEN family[name] ELSE EmptyMap, members)
        ELSE family[n]]

EmptyIndex ==
    [submissions |-> EmptyMap, links |-> EmptyMap, upvotes |-> EmptyMap,
     flairs |-> EmptyMap, flairNames |-> {}, searches |-> EmptyMap]

\* The positions of a batch; the last position that holds a given ID is the
\* one whose value a command of several fields or members keeps.
LastOf(batch, fullID) ==
    CHOOSE i \in 1..Len(batch) :
        /\ "t3_" \o batch[i].ID = fullID
        /\ \A j \in (i + 1)..Len(batch) : "t3_" \o batch[j].ID # fullID

FullIDs(batch) == { "t3_" \o batch[i].ID : i \in 1..Len(batch) }

\* The arguments addSubmissions builds in its first loop (redis.go 100-116).
SubmissionFields(batch) == [f \in FullIDs(batch) |-> batch[LastOf(batch, f)]]

LinkFields(batch) ==
    [f \in FullIDs(batch) |->
        << batch[LastOf(batch, f)].Title, batch[LastOf(batch, f)].Permalink >>]

UpvoteMembers(batch) == [f \in FullIDs(batch) |-> batch[LastOf(batch, f)].Ups]

FlairsOf(batch) == { batch[i].LinkFlairText : i \in 1..Len(batch) }

FlairMembers(batch, flairName) ==
    LET of == { i \in 1..Len(batch) : batch[i].LinkFlairText = flairName } IN
    [f \in { "t3_" \o batch[i].ID : i \in of } |-> batch[LastOf(batch, f)].DateCreated]

Terms(title) == { getTitleMatches(title)[j] : j \in 1..Len(getTitleMatches(title)) }

SearchesOf(batch) == UNION { Terms(batch[i].Title) : i \in 1..Len(batch) }

SearchMembers(batch, searchName) ==
    LET of == { i \in 1..Len(batch) : searchName \in Terms(batch[i].Title) } IN
    [f \in { "t3_" \o batch[i].ID : i \in of } |-> batch[LastOf(batch, f)].DateCreated]

\* The ZADDs of the loop over a map, applied for the names of `written`.
RECURSIVE ZAddAll(_, _, _, _)
ZAddAll(family, written, batch, flairsNotSearches) ==
    IF written = {} THEN family
    ELSE LET name == CHOOSE n \in written : TRUE IN
         ZAddAll(ZAddNamed(family, name,
                           IF flairsNotSearches THEN FlairMembers(batch, name)
                           ELSE SearchMembers(batch, name)),
                 written \ {name}, batch, flairsNotSearches)

\* The commands of addSubmissions in the order it sends them.
Steps == << "submissions", "links", "upvotes", "flairs", "flairNames", "searches" >>

StepOf(name) == CHOOSE k \in 1..Len(Steps) : Steps[k] = name

\* How a call of addSubmissions can go: every command succeeds, or the
\* command of the step `at` fails; in a loop over a map (whose order Go
\* leaves open) the sorted sets of `written` were written before the one
\* that fails.  A command that fails writes nothing.
Failures(batch) ==
    { [at |-> "none", written |-> {}] }
    \cup { [at |-> a, written |-> {}] : a \in {"submissions", "links", "upvotes", "flairNames"} }
    \cup { [at |-> "flairs", written |-> w] :
              w \in { x \in SUBSET FlairsOf(batch) : x # FlairsOf(batch) } }
    \cup { [at |-> "searches", written |-> w] :
              w \in { x \in SUBSET SearchesOf(batch) : x # SearchesOf(batch) } }

\* Whether the step `name` of a call that goes as `fail` is carried out.
Reached(fail, name) == fail.at = "none" \/ StepOf(name) < StepOf(fail.at)

\* addSubmissions(batch) on the index `idx`, going as `fail`: the error it
\* returns ("none" for nil, or the step that failed) and the index after it.
\* HSET without fields is an error of the server.
addSubmissions(idx, batch, fail) ==
    IF Len(batch) = 0 THEN [err |-> "submissions", index |-> idx]
    ELSE [err |-> fail.at,
          index |->
            [submissions |-> IF Reached(fail, "submissions")
                             THEN HSet(idx.submissions, SubmissionFields(batch))
                             ELSE idx.submissions,
             links       |-> IF Reached(fail, "links")
                             THEN HSet(idx.links, LinkFields(batch))
                             ELSE idx.links,
             upvotes     |-> IF Reached(fail, "upvotes")
                             THEN ZAdd(idx.upvotes, UpvoteMembers(batch))
                             ELSE idx.upvotes,
             flairs      |-> IF Reached(fail, "flairs")
                             THEN ZAddAll(idx.flairs, FlairsOf(batch), batch, TRUE)
                             ELSE IF fail.at = "flairs"
                             THEN ZAddAll(idx.flairs, fail.written, batch, TRUE)
                             ELSE idx.flairs,
             flairNames  |-> IF Reached(fail, "flairNames")
                             THEN idx.flairNames \cup FlairsOf(batch)
                             ELSE idx.flairNames,
             searches    |-> IF Reached(fail, "searches")
                             THEN ZAddAll(idx.searches, SearchesOf(batch), batch, FALSE)
                             ELSE IF fail.at = "searches"
                             THEN ZAddAll(idx.searches, fail.written, batch, FALSE)
                             ELSE idx.searches]]

\* The batches addSubmissions is called with directly: neighbouring
\* submissions among the IngestSpan newest of the archive, or none.
IngestBatches ==
    { [j \in 1..(r[2] - r[1] + 1) |-> SubmissionOf(r[1] + j - 1)] :
        r \in { q \in (1..IngestSpan) \X (1..IngestSpan) : q[1] <= q[2] } }
    \cup { << >> }

\* The call before this one ingested the same batch and returned nil.
Repeats(batch) ==
    /\ ingestCall # Nil
    /\ Deref(ingestCall).op = "addSubmissions"
    /\ Deref(ingestCall).batch = batch
    /\ Deref(ingestCall).err = "none"

\* One call of addSubmissions.
IndexAdd ==
    /\ Alive
    /\ \E batch \in IngestBatches :
         \E fail \in Failures(batch) :
           LET r == addSubmissions(index, batch, fail) IN
           /\ index' = r.index
           /\ ingestCall' = Ptr([op |-> "addSubmissions", batch |-> batch, fail |-> fail,
                                 err |-> r.err, again |-> Repeats(batch)])
    /\ UNCHANGED <<bpc, returned>>
    /\ UNCHANGED limiterVars
    /\ UNCHANGED schedVars
    /\ UNCHANGED crawlVars
    /\ UNCHANGED searchVars
    /\ UNCHANGED lockVars
    /\ UNCHANGED batchVars

\* A page of the listing that holds the IngestSpan newest submissions of
\* the archive as Reddit lists them: the same IDs, the votes gone up since.
Refreshed ==
    [j \in 1..IngestSpan |->
        [ID |-> PushshiftID(j), FullID |-> "t3_" \o PushshiftID(j),
         Ups |-> SubmissionOf(j).Ups + 1]]

\* The loop of analyzeRedditSubmissions over a page (routine.go 99-101):
\* the keys left in the map read from the submissions hash.
NotAnalyzed(submissionsMap, submissions) ==
    DOMAIN submissionsMap \ { submissions[j].ID : j \in 1..Len(submissions) }

\* One turn of the loop of analyzeRedditSubmissions (routine.go 99-105) on
\* a page of submissions the archive holds too: the deletions touch only
\* the map of the caller, updateVotes writes the upvote set.
IndexRefresh ==
    /\ Alive
    /\ \E failed \in BOOLEAN :
         LET r == updateVotes(index, Refreshed, failed)
         IN
         /\ index' = r.index
         /\ ingestCall' = Ptr([op |-> "updateVotes", batch |-> Refreshed,
                               fail |-> [at |-> r.err, written |-> {}], err |-> r.err,
                               again |-> FALSE])
    /\ UNCHANGED <<bpc, returned>>
    /\ UNCHANGED limiterVars
    /\ UNCHANGED schedVars
    /\ UNCHANGED crawlVars
    /\ UNCHANGED searchVars
    /\ UNCHANGED lockVars
    /\ UNCHANGED batchVars

\* One call of updateVotes with the first page of the listing.
IndexUpdateVotes ==
    /\ Alive
    /\ \E failed \in BOOLEAN :
         LET submissions == Crawled(PageFromStart.Posts)
             r == updateVotes(index, submissions, failed)
         IN
         /\ index' = r.index
         /\ ingestCall' = Ptr([op |-> "updateVotes", batch |-> submissions,
                               fail |-> [at |-> r.err, written |-> {}], err |-> r.err,
                               again |-> FALSE])
    /\ UNCHANGED <<bpc, returned>>
    /\ UNCHANGED limiterVars
    /\ UNCHANGED schedVars
    /\ UNCHANGED crawlVars
    /\ UNCHANGED searchVars
    /\ UNCHANGED lockVars
    /\ UNCHANGED batchVars

\* What Pushshift answers to a request: the newest submissions created
\* before `before` (all of them without it), up to the limit.
Serve(before) ==
    LET older == SelectSeq(Archive, LAMBDA rec : before = Nil \/ rec.Epoch < Deref(before)) IN
    SubSeq(older, 1, Min(Len(older), BatchLimit))

\* The function ReadPushshiftSubmissions returns, applied to what
\* ReadSubmissionBatch returned: an error other than ErrSubmissionsRead is
\* returned without the submissions.
ReadPushshiftSubmissions(r) ==
    IF r.err # "none" /\ r.err # "read" THEN [submissions |-> << >>, err |-> r.err]
    ELSE IF r.history.done /\ r.submissions = << >> THEN [submissions |-> << >>, err |-> "none"]
    ELSE [submissions |-> r.submissions, err |-> "none"]

\* The submissions of a batch counted as returned once more.
Return(n, batch) ==
    [id \in DOMAIN n |->
        IF \E j \in 1..Len(batch) : batch[j].ID = id
        THEN Min(n[id] + 1, MaxReturns) ELSE n[id]]

\* The goroutine of main calls readSubmissions while the client is open.
BackfillStart ==
    /\ Alive
    /\ ~closed
    /\ bpc = "idle"
    /\ bpc' = "loop"
    /\ UNCHANGED <<index, ingestCall, returned>>
    /\ UNCHANGED limiterVars
    /\ UNCHANGED schedVars
    /\ UNCHANGED crawlVars
    /\ UNCHANGED searchVars
    /\ UNCHANGED lockVars
    /\ UNCHANGED batchVars

\* One turn of the loop of readSubmissions: nextSubmissions (with
\* ReadSubmissionBatch and its request), then addSubmissions.  An error ends
\* the loop after dfatal, which exits the process outside production.
BackfillStep ==
    /\ Alive
    /\ bpc = "loop"
    /\ \E resp \in { [kind |-> "ok", data |-> Serve(RequestBefore(history))],
                     [kind |-> "error", data |-> << >>] } :
         LET r == ReadSubmissionBatch(reader, history, resp)
             n == ReadPushshiftSubmissions(r)
             batch == [j \in 1..Len(n.submissions) |-> FullSubmission(n.submissions[j])]
         IN
         /\ history' = r.history
         /\ batchCall' = Ptr([stored |-> history, resp |-> resp,
                              submissions |-> r.submissions, err |-> r.err,
                              request |-> r.request])
         /\ returned' = Return(returned, r.submissions)
         /\ IF n.err # "none"
            THEN /\ crash' = IF isProduction THEN crash ELSE "exit"
                 /\ bpc' = "idle"
                 /\ UNCHANGED <<index, ingestCall>>
            ELSE IF Len(n.submissions) = 0
            THEN /\ bpc' = "idle"
                 /\ UNCHANGED <<crash, index, ingestCall>>
            ELSE \E fail \in Failures(batch) :
                   LET a == addSubmissions(index, batch, fail) IN
                   /\ index' = a.index
                   /\ ingestCall' = Ptr([op |-> "addSubmissions", batch |-> batch,
                                         fail |-> fail, err |-> a.err,
                                         again |-> Repeats(batch)])
                   /\ IF a.err # "none"
                      THEN /\ crash' = IF isProduction THEN crash ELSE "exit"
                           /\ bpc' = "idle"
                      ELSE UNCHANGED <<crash, bpc>>
    /\ UNCHANGED reader
    /\ UNCHANGED limiterVars
    /\ UNCHANGED <<isProduction, closed, tickerC, tickerStopped, timerC, timerMode,
                   routineTickerClosed, spc, gpc, tpc, cpc, reqResult>>
    /\ UNCHANGED crawlVars
    /\ UNCHANGED searchVars
    /\ UNCHANGED lockVars

\* An empty index, and readSubmissions not yet called.
IndexInit ==
    /\ index = EmptyIndex
    /\ ingestCall = Nil
    /\ bpc = "idle"
    /\ returned = [id \in { PushshiftID(i) : i \in 1..ArchiveSize } |-> 0]

(***************************************************************************)
(* The search command: SearchCommand and ZIntersect.                       *)
(***************************************************************************)

\* The most results an intersection keeps.
MaxLinks == 25

\* The submissions of a populated index, oldest first, created one second
\* apart; two in three have a title with a search term, every other one the
\* flair Guide, every fourth the flair Old Map.
PostID(i) == "s" \o (IF i < 10 THEN "0" ELSE "") \o ToString(i)

Post(i) ==
    [ID            |-> PostID(i),
     Title         |-> TitlePool[(i % Len(TitlePool)) + 1],
     Permalink     |-> "/r/" \o PostID(i),
     Ups           |-> i,
     LinkFlairText |-> IF i % 2 = 1 THEN "Guide" ELSE IF i % 4 = 0 THEN "Old Map" ELSE "",
     DateCreated   |-> i]

\* The index after addSubmissions ingested the n oldest of them.
Populated(n) ==
    IF n = 0 THEN EmptyIndex
    ELSE addSubmissions(EmptyIndex, [i \in 1..n |-> Post(i)],
                        [at |-> "none", written |-> {}]).index

\* The index without the display string of one member (the store is a
\* server other clients write to).
WithoutLink(idx, fullID) ==
    [idx EXCEPT !.links = [f \in DOMAIN idx.links \ {fullID} |-> idx.links[f]]]

\* The indexes a query runs on.
Indexes ==
    { EmptyIndex, Populated(SmallIndex), Populated(IndexedPosts),
      WithoutLink(Populated(SmallIndex), "t3_" \o PostID(1)) }

\* The place of a member among the members in lexicographic order.
MemberNo(member) == CHOOSE i \in 1..IndexedPosts : "t3_" \o PostID(i) = member

\* The members of `tied`, which have the score `score`, in lexicographic
\* order, each as a redis.Z.
RECURSIVE Tied(_, _)
Tied(tied, score) ==
    IF tied = {} THEN << >>
    ELSE IF Cardinality(tied) = 1
    THEN << [Score |-> score, Member |-> Ptr(CHOOSE x \in tied : TRUE)] >>
    ELSE LET m == CHOOSE x \in tied : \A y \in tied : MemberNo(x) <= MemberNo(y) IN
         << [Score |-> score, Member |-> Ptr(m)] >> \o Tied(tied \ {m}, score)

RECURSIVE ByScore(_, _, _)
ByScore(zset, score, highest) ==
    IF score > highest THEN << >>
    ELSE Tied({ m \in DOMAIN zset : zset[m] = score }, score) \o ByScore(zset, score + 1, highest)

\* getZSet: ZRANGEBYSCORE -inf +inf WITHSCORES without a LIMIT, that is the
\* whole sorted set by rising score; a key that does not exist reads as the
\* empty set.
getZSet(family, name) ==
    IF name \notin DOMAIN family \/ DOMAIN family[name] = {} THEN << >>
    ELSE LET zset == family[name]
             scores == { zset[m] : m \in DOMAIN zset }
             lowest == CHOOSE x \in scores : \A y \in scores : x <= y
             highest == CHOOSE x \in scores : \A y \in scores : x >= y
         IN ByScore(zset, lowest, highest)

\* The zero value of redis.Z, which make() fills a slice with.
ZeroZ == [Score |-> 0, Member |-> Nil]

\* ZIntersect(a, b): the items of the longer slice that are keys of the map
\* built from the shorter one (a key is the whole redis.Z, score and
\* member), written to the front of a slice made with the length of the
\* shorter one.
ZIntersect(a, b) ==
    LET larger == IF Len(a) > Len(b) THEN a ELSE b
        smaller == IF Len(a) > Len(b) THEN b ELSE a
        baseSet == { smaller[j] : j \in 1..Len(smaller) }
        inBase(item) == item \in baseSet
        found == SelectSeq(larger, inBase)
    IN [j \in 1..Len(smaller) |-> IF j <= Len(found) THEN found[j] ELSE ZeroZ]

\* strings.Join(tokens, " ").
RECURSIVE Join(_)
Join(tokens) ==
    IF Len(tokens) = 0 THEN ""
    ELSE IF Len(tokens) = 1 THEN tokens[1]
    ELSE tokens[1] \o " " \o Join(Tail(tokens))

\* A split that keeps the first token in the flair filter.
SplitKeepingFirst(arguments) ==
    LET matches == getTitleMatches(<< arguments[1] >>) IN
    IF Len(matches) = 0
    THEN [search |-> "", flairArgument |-> Join(arguments)]
    ELSE [search |-> matches[1], flairArgument |-> Join(arguments)]

\* The split of the arguments of SearchCommand: the search key and the
\* flair filter.
Split(arguments) ==
    LET matches == getTitleMatches(<< arguments[1] >>) IN
    IF Len(matches) = 0
    THEN [search |-> "", flairArgument |-> Join(arguments)]
    ELSE [search |-> matches[1], flairArgument |-> Join(Tail(arguments))]

\* linkMap[member] of a Go map: the empty string (here the empty tuple)
\* for a member without an entry.
ZeroLink == << >>

LinkOf(linkMap, member) == IF member \in DOMAIN linkMap THEN linkMap[member] ELSE ZeroLink

\* The results SearchCommand makes links of.
Results(searchResults, flairs) ==
    IF Len(searchResults) # 0 /\ Len(flairs) # 0
    THEN LET both == ZIntersect(searchResults, flairs) IN
         IF Len(both) > MaxLinks THEN SubSeq(both, 1, MaxLinks) ELSE both
    ELSE IF Len(searchResults) # 0 THEN searchResults
    ELSE IF Len(flairs) # 0 THEN flairs
    ELSE << >>

\* How a call of SearchCommand can go: every request succeeds, or the read
\* of the term set, of the flair set or of the links, or the reply, fails.
SearchFailures == {"none", "search", "flairs", "links", "reply"}

\* What a call that ends before it has results returns.
Ended(err, reply, split, read) ==
    [err |-> err, reply |-> reply, exit |-> FALSE, search |-> split.search,
     flairArgument |-> split.flairArgument, read |-> read, results |-> << >>,
     links |-> << >>]

\* SearchCommand(arguments) on the index `idx`, going as `fail`: the keys
\* it reads, the results, the lines of links, the reply it sends ("parse",
\* "noResults", "found", or "none" when it sends none) and the error it
\* returns.  dfatal ends the process outside production.
SearchCommand(idx, arguments, fail, production) ==
    IF Len(arguments) = 0
    THEN Ended(IF fail = "reply" THEN "reply" ELSE "none", "parse",
               [search |-> "", flairArgument |-> ""], {})
    ELSE
    LET split == Split(arguments)
        readSearch == split.search # ""
        readFlairs == split.flairArgument # ""
        read == (IF readSearch THEN {<< "search", split.search >>} ELSE {})
                \cup (IF readFlairs /\ ~(readSearch /\ fail = "search")
                      THEN {<< "flairs", split.flairArgument >>} ELSE {})
        searchResults == IF readSearch THEN getZSet(idx.searches, split.search) ELSE << >>
        flairs == IF readFlairs THEN getZSet(idx.flairs, split.flairArgument) ELSE << >>
        results == Results(searchResults, flairs)
        isString(result) == result.Member # Nil
        strings == SelectSeq(results, isString)
        links == [j \in 1..Len(strings) |-> << "- ", LinkOf(idx.links, Deref(strings[j].Member)) >>]
    IN
    IF readSearch /\ fail = "search" THEN Ended("search", "none", split, read)
    ELSE IF readFlairs /\ fail = "flairs" THEN Ended("flairs", "none", split, read)
    ELSE IF fail = "links" THEN Ended("links", "none", split, read)
    ELSE IF ~production /\ Len(strings) # Len(results)
    THEN [err |-> "none", reply |-> "none", exit |-> TRUE, search |-> split.search,
          flairArgument |-> split.flairArgument, read |-> read, results |-> results,
          links |-> << >>]
    ELSE [err |-> IF fail = "reply" THEN "reply" ELSE "none",
          reply |-> IF Len(links) = 0 THEN "noResults" ELSE "found",
          exit |-> FALSE, search |-> split.search,
          flairArgument |-> split.flairArgument, read |-> read, results |-> results,
          links |-> links]

\* The tokens of a query and the arguments SearchCommand is called with.
Tokens == {"howto", "Guide", "Old", "Map"}

RECURSIVE ArgumentsOf(_)
ArgumentsOf(n) ==
    IF n = 0 THEN { << >> }
    ELSE ArgumentsOf(n - 1)
         \cup { Append(a, t) : a \in { x \in ArgumentsOf(n - 1) : Len(x) = n - 1 }, t \in Tokens }

\* One mention with the command search or find.
SearchQuery ==
    /\ Alive
    /\ \E arguments \in ArgumentsOf(MaxArgs), fail \in SearchFailures :
         LET r == SearchCommand(index, arguments, fail, isProduction) IN
         /\ searchCall' = Ptr([op |-> "SearchCommand", arguments |-> arguments,
                               fail |-> fail, out |-> r])
         /\ crash' = IF r.exit THEN "exit" ELSE crash
    /\ UNCHANGED <<isProduction, closed, tickerC, tickerStopped, timerC, timerMode,
                   routineTickerClosed, spc, gpc, tpc, cpc, reqResult>>
    /\ UNCHANGED limiterVars
    /\ UNCHANGED crawlVars
    /\ UNCHANGED batchVars
    /\ UNCHANGED indexVars
    /\ UNCHANGED lockVars

\* The ranked sets ZIntersect is called with directly: what getZSet reads
\* of a sorted set of up to MaxMembers members.
PoolScores == {1, 2}

RankedSets ==
    LET pool == { "t3_" \o PostID(i) : i \in 1..MaxMembers }
        zsets == UNION { [members -> PoolScores] : members \in SUBSET pool }
    IN { getZSet([set |-> zset], "set") : zset \in zsets }

\* One direct call of ZIntersect.
Intersect ==
    /\ Alive
    /\ \E a \in RankedSets, b \in RankedSets :
         searchCall' = Ptr([op |-> "ZIntersect", a |-> a, b |-> b, out |-> ZIntersect(a, b)])
    /\ UNCHANGED limiterVars
    /\ UNCHANGED schedVars
    /\ UNCHANGED crawlVars
    /\ UNCHANGED batchVars
    /\ UNCHANGED indexVars
    /\ UNCHANGED lockVars

SearchInit == searchCall = Nil

(***************************************************************************)
(* doRateLimit step by step: NewRateLimit, SetRateLimit under Reddit.lock, *)
(* and the reads of IsRateLimited (reddit.go 239-319, routine.go 256-269). *)
(***************************************************************************)

\* strconv.Atoi on the header values of the model.
Atoi(str) ==
    CASE str = "0" -> [err |-> FALSE, value |-> 0]
      [] str = "1" -> [err |-> FALSE, value |-> 1]
      [] OTHER -> [err |-> TRUE, value |-> 0]

\* The X-Ratelimit headers of a 429 response; "" is a header that is not
\* there (Header.Get returns "").
HeaderSets == [used : {"1", "x"}, remaining : {"0", "1", ""}, reset : {"1", "x"}]

\* A NewRateLimit that takes 0 for a header that does not parse.
ParseRateLimitLenient(headers, t) ==
    [err |-> "none",
     limit |-> Ptr(NewRateLimit(t, Atoi(headers.remaining).value, Atoi(headers.reset).value))]

\* NewRateLimit(resp): the error of the first header that does not parse,
\* or the snapshot.
ParseRateLimit(headers, t) ==
    IF Atoi(headers.used).err \/ Atoi(headers.remaining).err \/ Atoi(headers.reset).err
    THEN [err |-> "parse", limit |-> Nil]
    ELSE [err |-> "none",
          limit |-> Ptr(NewRateLimit(t, Atoi(headers.remaining).value, Atoi(headers.reset).value))]

\* An access to the snapshot or a return of doRateLimit, as rateCall keeps it.
RateEvent(op, by, headers, err) ==
    Ptr([op |-> op, by |-> by, headers |-> headers, err |-> err,
         holder |-> lock, held |-> currentRateLimit])

\* doRateLimit(resp) up to the call of SetRateLimit: an error of
\* NewRateLimit is returned at once.
DoRateLimitStart(t) ==
    /\ Alive
    /\ lpc[t] = "idle"
    /\ \E headers \in HeaderSets :
         LET r == ParseRateLimit(headers, now) IN
         /\ rateCall' = RateEvent("doRateLimit", t, Ptr(headers), r.err)
         /\ IF r.err # "none"
            THEN UNCHANGED <<lpc, pending>>
            ELSE /\ lpc' = [lpc EXCEPT ![t] = "lock"]
                 /\ pending' = [pending EXCEPT ![t] = r.limit]
    /\ UNCHANGED lock
    /\ UNCHANGED limiterVars
    /\ UNCHANGED schedVars
    /\ UNCHANGED crawlVars
    /\ UNCHANGED batchVars
    /\ UNCHANGED indexVars
    /\ UNCHANGED searchVars

\* c.Reddit.lock.Lock()
SetLock(t) ==
    /\ Alive
    /\ lpc[t] = "lock"
    /\ lock = Nil
    /\ lock' = Ptr(t)
    /\ lpc' = [lpc EXCEPT ![t] = "read"]
    /\ UNCHANGED <<pending, rateCall>>
    /\ UNCHANGED limiterVars
    /\ UNCHANGED schedVars
    /\ UNCHANGED crawlVars
    /\ UNCHANGED batchVars
    /\ UNCHANGED indexVars
    /\ UNCHANGED searchVars

\* currentLimit := c.Reddit.RateLimit() and the tests on it.
SetRead(t) ==
    /\ Alive
    /\ lpc[t] = "read"
    /\ rateCall' = RateEvent("RateLimit", t, Nil, "none")
    /\ lpc' = [lpc EXCEPT ![t] =
                  IF currentRateLimit = Nil
                     \/ Deref(currentRateLimit).time < Deref(pending[t]).time
                  THEN "write" ELSE "unlock"]
    /\ UNCHANGED <<lock, pending>>
    /\ UNCHANGED limiterVars
    /\ UNCHANGED schedVars
    /\ UNCHANGED crawlVars
    /\ UNCHANGED batchVars
    /\ UNCHANGED indexVars
    /\ UNCHANGED searchVars

\* c.Reddit.rateLimit.currentRateLimit = newLimit
SetWrite(t) ==
    /\ Alive
    /\ lpc[t] = "write"
    /\ currentRateLimit' = pending[t]
    /\ rateCall' = RateEvent("write", t, Nil, "none")
    /\ lpc' = [lpc EXCEPT ![t] = "unlock"]
    /\ UNCHANGED <<lock, pending>>
    /\ UNCHANGED <<now, supplied, isLimitedCall>>
    /\ UNCHANGED schedVars
    /\ UNCHANGED crawlVars
    /\ UNCHANGED batchVars
    /\ UNCHANGED indexVars
    /\ UNCHANGED searchVars

\* The deferred Unlock; doRateLimit goes on to its loop.
SetUnlock(t) ==
    /\ Alive
    /\ lpc[t] = "unlock"
    /\ lock' = Nil
    /\ lpc' = [lpc EXCEPT ![t] = "wait"]
    /\ UNCHANGED <<pending, rateCall>>
    /\ UNCHANGED limiterVars
    /\ UNCHANGED schedVars
    /\ UNCHANGED crawlVars
    /\ UNCHANGED batchVars
    /\ UNCHANGED indexVars
    /\ UNCHANGED searchVars

\* for !c.closed && !r.IsRateLimited() { <-c.Processes.Tick() }: one test of
\* the condition.
WaitRead(t) ==
    /\ Alive
    /\ lpc[t] = "wait"
    /\ LET next == RateLimitWaitNext(closed, IsRateLimited(currentRateLimit, now)) IN
       /\ rateCall' = IF closed THEN RateEvent("doRateLimit", t, Nil, "none")
                      ELSE RateEvent("IsRateLimited", t, Nil, "none")
       /\ crash' = IF next = "panic" THEN "nil dereference" ELSE crash
       /\ lpc' = [lpc EXCEPT ![t] = IF next = "return" THEN "idle" ELSE "wait"]
    /\ UNCHANGED <<lock, pending>>
    /\ UNCHANGED limiterVars
    /\ UNCHANGED crawlVars
    /\ UNCHANGED batchVars
    /\ UNCHANGED indexVars
    /\ UNCHANGED searchVars
    /\ UNCHANGED <<isProduction, closed, tickerC, tickerStopped, timerC, timerMode,
                   routineTickerClosed, spc, gpc, tpc, cpc, reqResult>>

\* The test of the goroutine of Start (processes.go 54).
SchedRead ==
    /\ Alive
    /\ ~closed
    /\ rateCall' = RateEvent("IsRateLimited", "sched", Nil, "none")
    /\ crash' = IF IsRateLimited(currentRateLimit, now) = "panic"
                THEN "nil dereference" ELSE crash
    /\ UNCHANGED <<lock, lpc, pending>>
    /\ UNCHANGED limiterVars
    /\ UNCHANGED crawlVars
    /\ UNCHANGED batchVars
    /\ UNCHANGED indexVars
    /\ UNCHANGED searchVars
    /\ UNCHANGED <<isProduction, closed, tickerC, tickerStopped, timerC, timerMode,
                   routineTickerClosed, spc, gpc, tpc, cpc, reqResult>>

\* Processes.Close sets closed; the loops of doRateLimit see it.
LockClose ==
    /\ Alive
    /\ ~closed
    /\ closed' = TRUE
    /\ UNCHANGED lockVars
    /\ UNCHANGED limiterVars
    /\ UNCHANGED crawlVars
    /\ UNCHANGED batchVars
    /\ UNCHANGED indexVars
    /\ UNCHANGED searchVars
    /\ UNCHANGED <<isProduction, crash, tickerC, tickerStopped, timerC, timerMode,
                   routineTickerClosed, spc, gpc, tpc, cpc, reqResult>>

\* No task is in doRateLimit and nobody holds the lock.
LockInit ==
    /\ lock = Nil
    /\ lpc = [t \in Tasks |-> "idle"]
    /\ pending = [t \in Tasks |-> Nil]
    /\ rateCall = Nil


LimiterInit ==
    /\ now = 0
    /\ currentRateLimit = Nil
    /\ supplied = <<>>
    /\ isLimitedCall = Nil

InitLimiter == LimiterInit /\ SchedInit /\ CrawlInit /\ BatchInit /\ IndexInit /\ SearchInit /\ LockInit /\ reader = "Client" /\ isProduction = TRUE /\ honouredBefore = FALSE

NextLimiter ==
    \/ CallSetRateLimit
    \/ CallIsRateLimited
    \/ AdvanceClock

SpecLimiter == InitLimiter /\ [][NextLimiter]_vars

InitSched == LimiterInit /\ SchedInit /\ CrawlInit /\ BatchInit /\ IndexInit /\ SearchInit /\ LockInit /\ reader = "Client" /\ isProduction = TRUE /\ honouredBefore = FALSE

StartStep ==
    \/ StartCheck
    \/ StartTick
    \/ StartStopTicker
    \/ StartDrainTick
    \/ StartResetTimer
    \/ StartTimer
    \/ StartRecvClosed
    \/ StartCloseChannel

SchedStep ==
    \/ SchedCheck
    \/ SchedTimer
    \/ SchedRateCheck
    \/ SchedTick

TaskStep(t) ==
    \/ TaskCheck(t)
    \/ TaskIterate(t)
    \/ TaskRateLimitCheck(t)
    \/ TaskRateLimitTick(t)
    \/ TaskWaitClosed(t)

CloseStep(i) ==
    \/ CloseRecvClosed(i)
    \/ CloseChannel(i)

Rendezvous ==
    \/ \E t \in Tasks : Grant(t)
    \/ \E i \in Closers : GrantToClose(i)
    \/ GrantToStart

NextSched ==
    \/ TickFire
    \/ TimerFire
    \/ StartStep
    \/ SchedStep
    \/ Rendezvous
    \/ \E t \in Tasks : TaskStep(t)
    \/ \E i \in Closers : CloseCall(i)
    \/ \E i \in Closers : CloseStep(i)

SpecSched == InitSched /\ [][NextSched]_vars

\* The Go scheduler runs every runnable goroutine and the runtime keeps
\* firing its tickers; whether and when Close is invoked is the caller's choice.
FairSpecSched ==
    /\ SpecSched
    /\ WF_vars(TickFire)
    /\ WF_vars(TimerFire)
    /\ WF_vars(StartStep)
    /\ WF_vars(SchedStep)
    /\ WF_vars(Rendezvous)
    /\ \A t \in Tasks : WF_vars(TaskStep(t))
    /\ \A i \in Closers : WF_vars(CloseStep(i))

InitCrawl == LimiterInit /\ SchedInit /\ CrawlInit /\ BatchInit /\ IndexInit /\ SearchInit /\ LockInit /\ reader = "Client" /\ isProduction \in BOOLEAN

NextCrawl ==
    \/ CrawlStart
    \/ CrawlFetch
    \/ CrawlRestart

SpecCrawl == InitCrawl /\ [][NextCrawl]_vars

\* The loop of analyzeRedditSubmissions keeps running: a getSubmissions call
\* that can be made is made.
FairSpecCrawl == SpecCrawl /\ WF_vars(CrawlFetch)

InitPage == LimiterInit /\ SchedInit /\ PageInit /\ BatchInit /\ IndexInit /\ SearchInit /\ LockInit /\ reader = "Client" /\ isProduction = TRUE

NextPage ==
    \/ PageCheck
    \/ PageRestart

SpecPage == InitPage /\ [][NextPage]_vars

InitGet == LimiterInit /\ SchedInit /\ PageInit /\ BatchInit /\ IndexInit /\ SearchInit /\ LockInit /\ reader = "Client" /\ isProduction \in BOOLEAN

NextGet ==
    \/ PageGet
    \/ PageRestart

SpecGet == InitGet /\ [][NextGet]_vars

InitBatch ==
    LimiterInit /\ SchedInit /\ CrawlInit /\ BatchInit /\ IndexInit /\ SearchInit /\ LockInit /\ reader \in Readers
    /\ isProduction = TRUE /\ honouredBefore = FALSE

NextBatch ==
    \/ BatchRead
    \/ BatchRestart

SpecBatch == InitBatch /\ [][NextBatch]_vars

InitIndex ==
    LimiterInit /\ SchedInit /\ CrawlInit /\ BatchInit /\ IndexInit /\ SearchInit /\ LockInit /\ reader = "Client"
    /\ isProduction = TRUE /\ honouredBefore = FALSE

NextIndex ==
    \/ IndexAdd
    \/ IndexUpdateVotes

SpecIndex == InitIndex /\ [][NextIndex]_vars

\* The ingestion of the archive and the crawl of the same submissions.
NextRefresh ==
    \/ IndexAdd
    \/ IndexRefresh

SpecRefresh == InitIndex /\ [][NextRefresh]_vars

InitBackfill ==
    LimiterInit /\ SchedInit /\ CrawlInit /\ BatchInit /\ IndexInit /\ SearchInit /\ LockInit /\ reader \in Readers
    /\ isProduction \in BOOLEAN /\ honouredBefore = FALSE

NextBackfill ==
    \/ BackfillStart
    \/ BackfillStep

SpecBackfill == InitBackfill /\ [][NextBackfill]_vars

\* A turn of the loop of readSubmissions whose request Pushshift answers.
BackfillAnswered ==
    BackfillStep /\ Deref(batchCall').resp.kind = "ok"

\* The goroutine of main goes on calling readSubmissions, and of the
\* requests it sends again and again some are answered.
FairSpecBackfill ==
    SpecBackfill /\ WF_vars(BackfillStart) /\ SF_vars(BackfillAnswered)

(***************************************************************************)
(* Claims about the rate limiter.                                          *)
(***************************************************************************)

\* The index in `supplied` of the first snapshot carrying the greatest time.
FirstNewest(s) ==
    CHOOSE i \in 1..Len(s) :
        /\ \A j \in 1..Len(s) : s[j].time <= s[i].time
        /\ \A j \in 1..(i - 1) : s[j].time < s[i].time

\* C2: after any sequence of SetRateLimit calls, in any order of observedAt,
\* the limiter holds the snapshot with the greatest observedAt among those
\* supplied; a snapshot that is not strictly newer than the held one never
\* displaces it (so among equally new ones the first supplied is held).
C2_HoldsNewest ==
    IF supplied = <<>> THEN currentRateLimit = Nil
    ELSE /\ currentRateLimit # Nil
         /\ Deref(currentRateLimit) = supplied[FirstNewest(supplied)]
         /\ \A i \in 1..Len(supplied) : supplied[i].time <= Deref(currentRateLimit).time

\* C2 witness: a newer snapshot was supplied first, an older and an equally
\* new but different one after it, and the first is still held.
C2_Witness ==
    /\ Len(supplied) = 3
    /\ supplied[2].time < supplied[1].time
    /\ supplied[3].time = supplied[1].time
    /\ supplied[3] # supplied[1]
    /\ Deref(currentRateLimit) = supplied[1]

\* C3: IsRateLimited returns true exactly when the held snapshot has
\* remaining == 0 and the current time is before its resetAt, and false in
\* every other state in which a snapshot is held.
C3_IsRateLimitedIffBlocked ==
    (isLimitedCall # Nil /\ Deref(isLimitedCall).held) =>
        LET call == Deref(isLimitedCall) IN
        /\ call.result \in {"true", "false"}
        /\ (call.result = "true") <=> call.blocked

(***************************************************************************)
(* Claims about the request path and the scheduler.                        *)
(***************************************************************************)

\* C4: each time doRateLimit evaluates its loop condition after a 429 has
\* installed a snapshot with no quota remaining, it goes on waiting for a
\* tick exactly when the client is not closed and the limiter is blocked;
\* once the reset time has passed, or the closed flag is set, it returns.
C4_WaitsExactlyWhileBlocked ==
    [][\A t \in Tasks :
         (/\ tpc[t] = "rlcheck"
          /\ tpc'[t] # "rlcheck"
          /\ currentRateLimit # Nil
          /\ Deref(currentRateLimit).remaining = 0) =>
             (tpc'[t] = "rltick" <=> (~closed /\ now < Deref(currentRateLimit).resetTime))]_vars

\* C5: the body of a 429 response is never returned to the caller of
\* doRequest as a successful result (the request is reissued instead).
C5_TooManyRequestsBodyNotReturned ==
    \A t \in Tasks : reqResult[t] # "ok429"

\* C6: each time the scheduler goroutine evaluates the condition of its
\* rate-limit loop on an open client holding a snapshot with no quota
\* remaining, it stays in the tick wait (granting nothing) exactly when the
\* limiter is blocked, and otherwise leaves the wait to grant the next
\* iteration.
C6_SchedulerWaitsExactlyWhileBlocked ==
    [][(/\ gpc = "rate"
        /\ gpc' # "rate"
        /\ ~closed
        /\ currentRateLimit # Nil
        /\ Deref(currentRateLimit).remaining = 0) =>
           (gpc' = "tick" <=> now < Deref(currentRateLimit).resetTime)]_vars

\* C7: while the client is not closed and not rate-limited, a task blocked
\* in RoutineWait is eventually released by a grant of the scheduler (stated
\* here for the behaviours in which the process does not end by a panic or
\* an exit, which only makes the statement weaker).
C7_WaitingTaskReleased ==
    \A t \in Tasks :
        (tpc[t] = "wait" /\ ~closed) ~>
            (tpc[t] # "wait" \/ closed \/ Blocked(currentRateLimit, now) \/ ~Alive)

\* C8: with Close invoked twice, in any interleaving with Start, its
\* goroutine and the loop tasks, no goroutine closes the already closed
\* routine channel (which panics).
C8_NeverClosesClosedChannel ==
    crash # "close of closed channel"

\* C9: after Close is invoked once, Start eventually returns and every loop
\* task observes the closed flag and leaves its loop (stated here for the
\* behaviours in which Close is not invoked a second time and the process
\* does not end by a panic or an exit, which only makes the statement weaker).
C9_CloseEndsStartAndTasks ==
    closed ~> \/ spc = "done" /\ \A t \in Tasks : tpc[t] = "done"
              \/ cpc[2] # "idle"
              \/ ~Alive

(***************************************************************************)
(* Claims about the crawl.                                                 *)
(***************************************************************************)

\* C1: over repeated crawl iterations on a fixed finite listing, with
\* restarts between iterations and the anchors and the direction flag kept
\* in the store, no submission is visited more than once (stated here for
\* an upstream that answers a query carrying both cursors by `after`,
\* which only makes the statement weaker).
C1_VisitedAtMostOnce ==
    honouredBefore \/ \A id \in DOMAIN visits : visits[id] <= 1

\* The cursor an iteration carries in its params.
Cursor(p) == IF p.Before # "" THEN p.Before ELSE p.After

\* C10: a page fetch that fails (request error or undecodable response)
\* modifies none of Current, Start, End and the direction flag, and the
\* iteration that follows it takes its cursor from that same Current anchor.
C10_FailedFetchKeepsAnchors ==
    failure # Nil =>
        /\ redis = Deref(failure).redis
        /\ kpc = "loop" =>
              Cursor(params) = IF Deref(failure).redis.Current = Nil THEN ""
                               ELSE Deref(Deref(failure).redis.Current)[1]

\* C10 witness: a fetch failed on an undecodable response after an earlier
\* page had set Current, and the next iteration has begun with its cursor.
C10_Witness ==
    /\ failure # Nil
    /\ Deref(failure).kind = "decode"
    /\ redis.Current # Nil
    /\ kpc = "loop"
    /\ Cursor(params) # ""

(***************************************************************************)
(* Claims about checkSubmissions and getSubmissions on any page.           *)
(***************************************************************************)

\* The last direct call was checkSubmissions and it returned.
Checked == pageCall # Nil /\ Deref(pageCall).op = "check" /\ ~Deref(pageCall).panic

\* The submission at the edge a page reaches in its direction: the last one
\* of a forward page, the first one of a backward page.
Edge(posts, isForwards) ==
    IF isForwards THEN posts.Posts[Len(posts.Posts)] ELSE posts.Posts[1]

\* A page without submissions and without a cursor in its direction.
EmptyTerminal(posts, isForwards) ==
    /\ Len(posts.Posts) = 0
    /\ IF isForwards THEN posts.After = "" ELSE posts.Before = ""

\* C11: after every successfully fetched page, an empty terminal page
\* included, the stored direction flag is the direction the page was fetched
\* in, and after a page with submissions the stored Current anchor is the
\* submission at the edge the page reached.
C11_CurrentRewrittenAfterEveryPage ==
    Checked =>
        LET call == Deref(pageCall) IN
        /\ redis.IsForwards = Ptr(FormatBool(call.isForwards))
        /\ Len(call.posts.Posts) > 0 =>
              getAnchor(redis, "Current")
                  = Ptr([FullID |-> Edge(call.posts, call.isForwards).FullID,
                         Epoch  |-> Deref(Edge(call.posts, call.isForwards).Created)])

\* The createdAt of a stored anchor.
StoredEpoch(rds, anchorKey) == Deref(rds[anchorKey])[2]

C13_StartOnlyRatchetsBackward ==
    [][ /\ redis'.Start # redis.Start =>
             /\ pageCall' # Nil
             /\ Deref(pageCall').op = "check"
             /\ ~Deref(pageCall').isForwards
             /\ Len(Deref(pageCall').posts.Posts) > 0
             /\ \/ redis.Start = Nil
                \/ Deref(Edge(Deref(pageCall').posts, FALSE).Created) < StoredEpoch(redis, "Start")
        /\ redis.Start # Nil =>
             /\ redis'.Start # Nil
             /\ StoredEpoch(redis', "Start") <= StoredEpoch(redis, "Start") ]_vars

C15_ResumesInStoredDirection ==
    [][ (kpc = "idle" /\ kpc' = "loop") =>
          LET currentAnchor == getAnchor(redis, "Current") IN
          IF currentAnchor = Nil
          THEN params' = initialParams
          ELSE /\ redis.IsForwards = Ptr(FormatBool(TRUE)) =>
                     params' = [Before |-> "", After |-> Deref(currentAnchor).FullID]
               /\ redis.IsForwards = Ptr(FormatBool(FALSE)) =>
                     params' = [Before |-> Deref(currentAnchor).FullID, After |-> ""] ]_vars

(***************************************************************************)
(* Claims about getSubmissions called with any params.                     *)
(***************************************************************************)

\* The last direct call was getSubmissions.
Got == pageCall # Nil /\ Deref(pageCall).op = "get"

\* C16: the request getSubmissions sends carries the cursor in the parameter
\* of its direction: before = params.Before and an empty after when
\* backwards, after = params.After and an empty before when forwards.
C16_QueryCarriesCursorOfDirection ==
    (Got /\ Deref(pageCall).query # Nil) =>
        LET call == Deref(pageCall) IN
        Deref(call.query) =
            IF call.isForwards
            THEN [after |-> call.params.After, before |-> ""]
            ELSE [after |-> "", before |-> call.params.Before]

\* The params of a call carry both cursors.
BothCursors(call) == call.params.Before # "" /\ call.params.After # ""

\* C17 as stated: getSubmissions called with both cursors set returns an
\* error, sends no request and writes nothing to the store.
C17_BothCursorsReturnError ==
    [][ (pageCall' # Nil /\ Deref(pageCall').op = "get" /\ BothCursors(Deref(pageCall'))) =>
          /\ Deref(pageCall').err = "both"
          /\ Deref(pageCall').query = Nil
          /\ redis' = redis
          /\ crash' = "none" ]_vars

\* C17 amended: getSubmissions called with both cursors set sends no request
\* and writes nothing to the store; in production it returns an error, and
\* outside production the process exits.
C17_BothCursorsRejected ==
    [][ (pageCall' # Nil /\ Deref(pageCall').op = "get" /\ BothCursors(Deref(pageCall'))) =>
          /\ Deref(pageCall').err = "both"
          /\ Deref(pageCall').query = Nil
          /\ redis' = redis
          /\ crash' = IF isProduction THEN "none" ELSE "exit" ]_vars

\* getSubmissions was called with both cursors on a store that holds a
\* Current anchor, and returned.
C17_Witness ==
    /\ Got
    /\ BothCursors(Deref(pageCall))
    /\ redis.Current # Nil
    /\ crash = "none"

\* C18: a page with zero records is processed without an error and without
\* a crash, whatever cursors it carries.
C18_EmptyPageEndsQuietly ==
    (pageCall # Nil /\ Deref(pageCall).op = "check" /\ Len(Deref(pageCall).posts.Posts) = 0) =>
        /\ ~Deref(pageCall).panic
        /\ Deref(pageCall).err = "none"
        /\ crash = "none"

(***************************************************************************)
(* Claims about the end of a crawl iteration.                              *)
(***************************************************************************)

\* The cursor a page carries in the direction the call travels.
CursorOfDirection(call) ==
    IF call.isForwards THEN call.posts.After ELSE call.posts.Before

BoundaryBatch ==
    /\ batchCall # Nil
    /\ ~Deref(batchCall).stored.done
    /\ Deref(batchCall).stored.last # Nil
    /\ Deref(batchCall).resp.kind = "ok"
    /\ Len(Deref(batchCall).resp.data) > 0
    /\ Deref(batchCall).resp.data[1].ID = Deref(Deref(batchCall).stored.last).ID

\* C20: given a batch whose first record has the ID of the stored last
\* submission, ReadSubmissionBatch returns the batch without that record,
\* the remaining records in their original order.
C20_BoundaryRecordDropped ==
    BoundaryBatch =>
        Deref(batchCall).submissions = Tail(Deref(batchCall).resp.data)

\* Such a batch of three records came back and two records were returned.
C20_Witness ==
    /\ BoundaryBatch
    /\ Len(Deref(batchCall).resp.data) = 3
    /\ Len(Deref(batchCall).submissions) = 2

\* The last call of ReadSubmissionBatch had a stored last submission and
\* received a batch in which that submission is the first record or absent.
AnchoredBatch ==
    /\ batchCall # Nil
    /\ ~Deref(batchCall).stored.done
    /\ Deref(batchCall).stored.last # Nil
    /\ Deref(batchCall).resp.kind = "ok"
    /\ \A i \in 2..Len(Deref(batchCall).resp.data) :
          Deref(batchCall).resp.data[i].ID # Deref(Deref(batchCall).stored.last).ID

\* The records of that batch without the stored last submission.
FreshRecords ==
    LET data == Deref(batchCall).resp.data IN
    IF Len(data) > 0 /\ data[1].ID = Deref(Deref(batchCall).stored.last).ID
    THEN Tail(data) ELSE data

C22_MaySkipBatchIngested ==
    [][ (/\ bpc = "loop"
         /\ batchCall' # Nil
         /\ Deref(batchCall').err = "skip") =>
           /\ \A f \in FullIDs(Deref(batchCall').submissions) :
                 f \in DOMAIN index'.submissions
           /\ bpc' = "loop"
           /\ crash' = "none" ]_vars

\* The boundary dedup leaves no record of the batch of a call: the batch is
\* empty, or it is the stored last submission alone.
ConsumedByDedup(call) ==
    \/ Len(call.resp.data) = 0
    \/ /\ call.stored.last # Nil
       /\ Len(call.resp.data) = 1
       /\ call.resp.data[1].ID = Deref(call.stored.last).ID

\* C23: a call whose batch the boundary dedup consumes sets done and returns
\* the fully-read sentinel without records, and every call made while done
\* is set returns the sentinel without sending a request and leaves done set.
C23_ExhaustedIsAbsorbing ==
    [][ batchCall' # Nil =>
          LET call == Deref(batchCall') IN
          /\ (~call.stored.done /\ call.resp.kind = "ok" /\ ConsumedByDedup(call)) =>
                /\ call.err = "read"
                /\ call.submissions = << >>
                /\ call.request # Nil
                /\ history'.done
          /\ call.stored.done =>
                /\ call.err = "read"
                /\ call.submissions = << >>
                /\ call.request = Nil
                /\ history'.done ]_vars

\* ReadSubmissionBatch was called while done was set, with a batch on offer,
\* and sent no request.
C23_Witness ==
    /\ batchCall # Nil
    /\ Deref(batchCall).stored.done
    /\ Deref(batchCall).resp.kind = "ok"
    /\ Len(Deref(batchCall).resp.data) > 0
    /\ Deref(batchCall).request = Nil
    /\ history.done

\* C24: against an archive served newest first in which fewer submissions
\* than the limit share an epoch, successive ReadSubmissionBatch calls return
\* no submission in two batches (the half of the claim a finite run can
\* refute; the other half is that none is skipped).
C24_ReturnedAtMostOnce ==
    \A id \in DOMAIN returned : returned[id] <= 1

\* C25: ingesting the batch that the call before ingested leaves the record
\* store, the display-string store, the upvote set, the flair sets, the
\* search sets and the set of flair names as they were after that call.
C25_SecondIngestionChangesNothing ==
    [][ (/\ ingestCall' # Nil
         /\ Deref(ingestCall').again
         /\ Deref(ingestCall').err = "none") => index' = index ]_vars

\* A batch of two submissions, which between them have two flairs and two
\* search terms, was ingested twice in a row.
C25_Witness ==
    /\ ingestCall # Nil
    /\ Deref(ingestCall).again
    /\ Deref(ingestCall).err = "none"
    /\ Len(Deref(ingestCall).batch) = 2
    /\ DOMAIN index.flairs = {"", "Guide"}
    /\ DOMAIN index.searches = {"guide", "map"}
    /\ \A f \in FullIDs(Deref(ingestCall).batch) : f \in DOMAIN index.upvotes

\* ---- C26 ----
\* The IDs that are members of the display-string store, of the upvote set,
\* of a flair set or of a search set of the index.
MemberIDs(idx) ==
    DOMAIN idx.links \cup DOMAIN idx.upvotes
    \cup UNION { DOMAIN idx.flairs[n] : n \in DOMAIN idx.flairs }
    \cup UNION { DOMAIN idx.searches[n] : n \in DOMAIN idx.searches }

\* Every member has its record in the record store.
MembersHaveRecords == MemberIDs(index) \subseteq DOMAIN index.submissions

\* What the steps of a call of addSubmissions that were carried out before
\* the step that failed wrote is in the index after the call.
EarlierWritesKept(call, idx) ==
    LET batch == call.batch
        fail == call.fail
    IN
    /\ Reached(fail, "submissions") =>
          \A f \in FullIDs(batch) :
              f \in DOMAIN idx.submissions /\ idx.submissions[f] = SubmissionFields(batch)[f]
    /\ Reached(fail, "links") =>
          \A f \in FullIDs(batch) :
              f \in DOMAIN idx.links /\ idx.links[f] = LinkFields(batch)[f]
    /\ Reached(fail, "upvotes") =>
          \A f \in FullIDs(batch) :
              f \in DOMAIN idx.upvotes /\ idx.upvotes[f] = UpvoteMembers(batch)[f]
    /\ Reached(fail, "flairs") =>
          \A n \in FlairsOf(batch) :
              n \in DOMAIN idx.flairs
              /\ DOMAIN FlairMembers(batch, n) \subseteq DOMAIN idx.flairs[n]
    /\ Reached(fail, "flairNames") => FlairsOf(batch) \subseteq idx.flairNames

\* A call of addSubmissions one of whose write steps failed.
FailedIngest(call) ==
    /\ call # Nil
    /\ Deref(call).op = "addSubmissions"
    /\ Len(Deref(call).batch) > 0
    /\ Deref(call).err # "none"

NoRollback == [][FailedIngest(ingestCall') => EarlierWritesKept(Deref(ingestCall'), index')]_vars

\* C26: when a write step of addSubmissions fails, the writes of the
\* earlier steps are kept, and in every reachable state of the index every
\* ID that is a member of the display-string store, of the upvote set, of a
\* flair set or of a search set has its record in the record store.
C26_PartialWritesKeptMembersHaveRecords == NoRollback /\ []MembersHaveRecords

\* Queries and direct intersections on an index as it can be found.
InitSearch ==
    /\ LimiterInit /\ SchedInit /\ CrawlInit /\ BatchInit /\ SearchInit /\ LockInit
    /\ reader = "Client"
    /\ honouredBefore = FALSE
    /\ isProduction \in BOOLEAN
    /\ index \in Indexes
    /\ ingestCall = Nil
    /\ bpc = "idle"
    /\ returned = [id \in { PushshiftID(i) : i \in 1..ArchiveSize } |-> 0]

NextSearch ==
    \/ SearchQuery
    \/ Intersect

SpecSearch == InitSearch /\ [][NextSearch]_vars

\* ---- C27 ----
\* The members of a slice of redis.Z.
MembersOf(z) == { z[j].Member : j \in 1..Len(z) }

\* The last call was a direct call of ZIntersect.
Intersected == searchCall # Nil /\ Deref(searchCall).op = "ZIntersect"

\* C27: ZIntersect(A, B) returns exactly the members that are in A and in
\* B, whatever their scores, each once, and no other entry.
C27_IntersectionOfMembers ==
    Intersected =>
        LET call == Deref(searchCall)
            common == MembersOf(call.a) \cap MembersOf(call.b)
        IN /\ MembersOf(call.out) = common
           /\ Len(call.out) = Cardinality(common)

\* ---- C28 ----
\* The last call was a call of SearchCommand.
Searched == searchCall # Nil /\ Deref(searchCall).op = "SearchCommand"

\* C28: a reply of SearchCommand has at most 25 links, whether they come
\* from an intersection or from a single set.
C28_AtMostMaxLinks == Searched => Len(Deref(searchCall).out.links) <= MaxLinks

\* ---- C29 ----
\* The members among the results of a call that have a display string.
Linked(call) ==
    { m \in { Deref(member) : member \in MembersOf(call.out.results) \ {Nil} } :
        m \in DOMAIN index.links }

RowsMatching(token) ==
    { k \in 1..Len(Searches) :
        \E a \in 1..Len(Searches[k]) : Fold(Searches[k][a]) = Fold(token) }

\* C30: when the first token matches an alias row, the search key is the
\* canonical term of the row, the term set is read and the flair filter is
\* the other tokens joined by spaces; otherwise the flair filter is all the
\* tokens joined by spaces and no term set is read.
C30_ArgumentsSplit ==
    (Searched /\ Len(Deref(searchCall).arguments) > 0) =>
        LET call == Deref(searchCall)
            rows == RowsMatching(call.arguments[1])
        IN IF rows # {}
           THEN LET k == CHOOSE x \in rows : \A y \in rows : x <= y IN
                /\ call.out.search = Searches[k][1]
                /\ << "search", Searches[k][1] >> \in call.out.read
                /\ call.out.flairArgument = Join(Tail(call.arguments))
           ELSE /\ call.out.flairArgument = Join(call.arguments)
                /\ \A key \in call.out.read : key[1] # "search"

\* A query whose first token is an alias other than the canonical term and
\* whose second token is a flair was answered with links.
C30_Witness ==
    /\ Searched
    /\ Deref(searchCall).arguments = << "howto", "Guide" >>
    /\ Deref(searchCall).out.search = "guide"
    /\ Deref(searchCall).out.flairArgument = "Guide"
    /\ Deref(searchCall).out.reply = "found"

\* A query none of whose tokens matches an alias was answered from the
\* flair set of its two tokens.
C30_WitnessFlairOnly ==
    /\ Searched
    /\ Deref(searchCall).arguments = << "Old", "Map" >>
    /\ Deref(searchCall).out.read = { << "flairs", "Old Map" >> }
    /\ Deref(searchCall).out.reply = "found"

\* The tasks in doRateLimit and the goroutine of Start, step by step.
InitLock ==
    LimiterInit /\ SchedInit /\ CrawlInit /\ BatchInit /\ IndexInit /\ SearchInit /\ LockInit
    /\ reader = "Client" /\ isProduction = TRUE /\ honouredBefore = FALSE

NextLock ==
    \/ \E t \in Tasks :
          \/ DoRateLimitStart(t)
          \/ SetLock(t)
          \/ SetRead(t)
          \/ SetWrite(t)
          \/ SetUnlock(t)
          \/ WaitRead(t)
    \/ SchedRead
    \/ LockClose
    \/ AdvanceClock

SpecLock == InitLock /\ [][NextLock]_vars

\* ---- C31 ----
\* The last step read or wrote the snapshot.
Accessed ==
    /\ rateCall # Nil
    /\ Deref(rateCall).op \in {"RateLimit", "IsRateLimited", "write"}

\* C31: every read and every write of the snapshot is made by a caller that
\* holds the lock of the limiter.
C31_AccessesHoldLock == Accessed => Deref(rateCall).holder = Ptr(Deref(rateCall).by)

\* ---- C32 ----
\* One of the three headers is no integer.
Unparsable(headers) ==
    \E h \in {headers.used, headers.remaining, headers.reset} : h \notin {"0", "1"}

\* doRateLimit has just been called with a response whose headers do not parse.
RejectedHeaders ==
    /\ rateCall # Nil
    /\ Deref(rateCall).op = "doRateLimit"
    /\ Deref(rateCall).headers # Nil
    /\ Unparsable(Deref(Deref(rateCall).headers))

\* C32: when a header of the 429 response does not parse, doRateLimit
\* returns an error, no snapshot is installed and the held one is unchanged.
C32_UnparsableHeadersRejected ==
    RejectedHeaders =>
        /\ Deref(rateCall).err = "parse"
        /\ currentRateLimit = Deref(rateCall).held
        /\ lpc[Deref(rateCall).by] = "idle"

\* A response whose Remaining header is missing was rejected while a
\* snapshot was held.
C32_Witness ==
    /\ RejectedHeaders
    /\ Deref(Deref(rateCall).headers).remaining = ""
    /\ Deref(rateCall).held # Nil
    /\ currentRateLimit # Nil

\* ---- C38 ----
\* C38: with no snapshot ever observed, IsRateLimited returns false.
C38_NoSnapshotNotLimited ==
    (isLimitedCall # Nil /\ ~Deref(isLimitedCall).held) =>
        Deref(isLimitedCall).result = "false"

\* ---- C33 ----
\* C33: in production an iteration that returns an error takes the task to
\* RoutineWait; from there the task goes on to the test of its loop, and
\* from the test to another iteration unless the client is closed; a task
\* leaves its loop only when the client is closed.
C33_ErrorKeepsTaskInLoop ==
    [][\A t \in Tasks :
          /\ (reqResult'[t] = "err" /\ reqResult[t] # "err") =>
                (tpc'[t] = "wait" /\ crash' = crash)
          /\ (tpc[t] = "wait" /\ reqResult[t] = "err" /\ tpc'[t] # "wait") =>
                tpc'[t] = "check"
          /\ (tpc[t] = "check" /\ tpc'[t] # "check" /\ ~closed) => tpc'[t] = "iter"
          /\ (tpc'[t] = "done" /\ tpc[t] # "done") => closed]_vars

\* The crawl task waits in RoutineWait after an iteration that returned an
\* error, in production, the client still open.
C33_Witness ==
    /\ isProduction
    /\ ~closed
    /\ crash = "none"
    /\ tpc["crawl"] = "wait"
    /\ reqResult["crawl"] = "err"

\* ---- C34 ----
\* The tasks a step takes out of RoutineWait.
Released == { t \in Tasks : tpc[t] = "wait" /\ tpc'[t] # "wait" }

\* C34: a step takes at most one task out of RoutineWait, and only by
\* receiving the send of the scheduler (or from the closed channel), so no
\* task iterates again without a grant; and when both tasks wait, the client
\* open, each of them is eventually granted (stated for the behaviours in
\* which the process does not end, which only makes the statement weaker).
C34_EachWaitingTaskGranted ==
    /\ [][Cardinality(Released) <= 1]_vars
    /\ [][\A t \in Released :
             (gpc = "send" /\ gpc' = "timer") \/ routineTickerClosed]_vars
    /\ \A t \in Tasks :
          (tpc["crawl"] = "wait" /\ tpc["reply"] = "wait" /\ ~closed) ~>
              (tpc[t] # "wait" \/ closed \/ ~Alive)

\* ---- C36 ----
\* The last call of ReadSubmissionBatch ended by the error of its request
\* or of the decoding.
RequestFailed == batchCall # Nil /\ Deref(batchCall).err = "request"

\* C36: when the request or the decoding fails, ReadSubmissionBatch returns
\* the error without submissions and leaves history.last and history.done
\* as they were, so that the next call, whatever it is answered, sends the
\* request of the failed call again.
C36_FailedRequestKeepsHistory ==
    RequestFailed =>
        /\ history = Deref(batchCall).stored
        /\ Deref(batchCall).submissions = << >>
        /\ \A resp \in Batches :
              ReadSubmissionBatch(reader, history, resp).request = Deref(batchCall).request

\* A request fails after a batch has been read: history.last is set.
C36_Witness ==
    /\ RequestFailed
    /\ Deref(batchCall).stored.last # Nil
    /\ Deref(Deref(batchCall).request).before # Nil

\* ---- C35 ----
\* C35: against the unchanging archive, in which two submissions share each
\* epoch, the calls of ReadSubmissionBatch eventually signal exhaustion
\* (history.done is set); stated for the behaviours in which the process
\* does not end, which only makes the statement weaker.
C35_BackfillExhausts ==
    <>(history.done \/ ~Alive)

\* ---- C37 ----
\* The submissions the loop of the last call of ReadSubmissionBatch took
\* off the front of its response.
RemovedByDedup ==
    IF batchCall = Nil \/ Deref(batchCall).resp.kind # "ok"
       \/ Deref(batchCall).stored.done \/ Deref(batchCall).stored.last = Nil
    THEN << >>
    ELSE LET c == Deref(batchCall)
             kept == DropThroughMatch(c.resp.data, Deref(c.stored.last).ID)
         IN SubSeq(c.resp.data, 1, Len(c.resp.data) - Len(kept))

VotesUpdated ==
    /\ ingestCall # Nil
    /\ Deref(ingestCall).op = "updateVotes"
    /\ Deref(ingestCall).err = "none"

\* C39: after updateVotes refreshed a submission that addSubmissions had
\* put into the upvote set, the set holds one member for it, the member
\* addSubmissions wrote, with the score of the refresh, and the loop of
\* the crawl has taken the submission out of its map of submissions not
\* analyzed.
C39_OneUpvoteMemberPerSubmission ==
    VotesUpdated =>
        \A j \in 1..Len(Deref(ingestCall).batch) :
            LET s == Deref(ingestCall).batch[j] IN
            s.FullID \in DOMAIN index.upvotes =>
                /\ s.ID \notin DOMAIN index.upvotes
                /\ index.upvotes[s.FullID] = s.Ups
                /\ s.FullID \notin NotAnalyzed(index.submissions, Deref(ingestCall).batch)

\* ---- C40 ----
\* C40: a step in which checkSubmissions writes the Start or the End anchor
\* to the store leaves the Search in memory with the anchors the store then
\* holds.
C40_SearchFollowsStoredAnchors ==
    [][(redis'.Start # redis.Start \/ redis'.End # redis.End) =>
          /\ search'.Start = getAnchor(redis', "Start")
          /\ search'.End = getAnchor(redis', "End")]_vars

====
